---- MODULE Spec2Model ----
(***************************************************************************)
(* Sender Recovery Farm (silkworm stagedsync, recovery_farm.cpp).          *)
(*                                                                         *)
(* The model follows RecoveryFarm::recover() statement by statement: the   *)
(* main thread is a program counter `pc` over the places where it reads or *)
(* writes state shared with the workers (the stop flag, the harvestable    *)
(* queue, the in-flight counter, the workers' states and buffers); worker  *)
(* threads, the process signal and store failures are separate actions.    *)
(***************************************************************************)
EXTENDS Integers, Sequences, FiniteSets, TLC

(***************************************************************************)
(* Bounds of the model.                                                    *)
(***************************************************************************)
MaxBlock == 3        \* a scenario uses the heights base .. base + MaxBlock
MaxTxs == 2          \* transactions per block body
MaxWorkers == 2      \* largest std::thread::hardware_concurrency()
MaxBatchSize == 1    \* batch_size_ ranges over 0 .. MaxBatchSize
MaxEvents == 1       \* environment events (signal, worker fault, failed spawn,
                     \* store exception) in one run

(***************************************************************************)
(* Program constants.                                                      *)
(***************************************************************************)
kStopCheckInterval == 1024   \* recover(): reached_block_num % 1024
EVMC_MAX_REVISION == 12
EVMC_FRONTIER == 0
EVMC_HOMESTEAD == 1
EVMC_SPURIOUS_DRAGON == 3
EVMC_BERLIN == 8
EVMC_LONDON == 9

(***************************************************************************)
(* Hashes.  A 32-byte hash is the pair <<its first 8 bytes, its remaining  *)
(* 24 bytes>>: recover() compares sizeof(kHashLength) = 8 bytes of it.     *)
(* Byte order is the lexicographic order of the pair.                      *)
(***************************************************************************)
HashPrefix(h) == h[1]

HashLess(a, b) == a[1] < b[1] \/ (a[1] = b[1] /\ a[2] < b[2])

CanonHash == <<2, 2>>

\* non-canonical hashes: before/after the canonical one, same/other prefix
SiblingHashes == {<<1, 2>>, <<2, 1>>, <<2, 3>>, <<3, 2>>}

(***************************************************************************)
(* db::block_key(num, hash): big-endian number followed by the hash, so    *)
(* keys order by number first and by hash bytes next.                      *)
(***************************************************************************)
block_key(num, hash) == <<num, hash>>

KeyNum(key) == key[1]

KeyHash(key) == key[2]

KeyLess(k1, k2) ==
    KeyNum(k1) < KeyNum(k2) \/ (KeyNum(k1) = KeyNum(k2) /\ HashLess(KeyHash(k1), KeyHash(k2)))

MinKey(S) == CHOOSE k \in S : \A o \in S : o = k \/ KeyLess(k, o)

MinNum(S) == CHOOSE n \in S : \A o \in S : n <= o

MaxNum(S) == CHOOSE n \in S : \A o \in S : n >= o

NoKey == <<0, <<0, 0>>>>

(***************************************************************************)
(* mdbx cursor on a table keyed by block_key: find is an exact match,      *)
(* to_next moves to the smallest greater key; done = false at the end.     *)
(***************************************************************************)
CursorFind(table, key) ==
    IF key \in DOMAIN table THEN [done |-> TRUE, key |-> key]
    ELSE [done |-> FALSE, key |-> NoKey]

CursorNext(table, key) ==
    LET after == {k \in DOMAIN table : KeyLess(key, k)}
    IN  IF after = {} THEN [done |-> FALSE, key |-> NoKey]
        ELSE [done |-> TRUE, key |-> MinKey(after)]

\* the same on the canonical-hashes table, keyed by the block number alone
NumFind(table, num) ==
    IF num \in DOMAIN table THEN [done |-> TRUE, key |-> num]
    ELSE [done |-> FALSE, key |-> 0]

NumNext(table, num) ==
    LET after == {k \in DOMAIN table : k > num}
    IN  IF after = {} THEN [done |-> FALSE, key |-> 0]
        ELSE [done |-> TRUE, key |-> MinNum(after)]

(***************************************************************************)
(* Chain configuration: evmc_fork_blocks[i] is the activation block of     *)
(* revision i (a one-element set) or unset (the empty set).                *)
(***************************************************************************)
\* variant: a revision is active only after its activation block
RECURSIVE RevisionFrom_After(_, _, _)
RevisionFrom_After(fork_blocks, block_number, i) ==
    IF i = 0 THEN EVMC_FRONTIER
    ELSE IF fork_blocks[i] # {} /\ (\A b \in fork_blocks[i] : block_number > b) THEN i
    ELSE RevisionFrom_After(fork_blocks, block_number, i - 1)

RECURSIVE RevisionFrom(_, _, _)
RevisionFrom(fork_blocks, block_number, i) ==
    IF i = 0 THEN EVMC_FRONTIER
    ELSE IF fork_blocks[i] # {} /\ (\A b \in fork_blocks[i] : block_number >= b) THEN i
    ELSE RevisionFrom(fork_blocks, block_number, i - 1)

revision(config, block_number) ==
    RevisionFrom(config.evmc_fork_blocks, block_number, EVMC_MAX_REVISION)

(***************************************************************************)
(* Transactions.  type, optional chain_id (a set of at most one value),    *)
(* the class of the signature scalars, and the payload that stands for     *)
(* the signing-form RLP bytes.                                             *)
(***************************************************************************)
Tx(type, chain_id, sig, payload) ==
    [type |-> type, chain_id |-> chain_id, sig |-> sig, payload |-> payload]

\* silkpre::is_valid_signature(r, s, homestead): "ok" scalars are valid,
\* "high_s" (s above half the group order) only before Homestead
is_valid_signature(sig, homestead) ==
    sig = "ok" \/ (sig = "high_s" /\ ~homestead)

\* keccak256 of the signing-form RLP: one hash per payload
keccak256(payload) == <<payload>>

\* secp256k1 recovery followed by the address derivation
RecoveredAddress(tx_hash) == <<1, tx_hash>>

\* the value of RecoveryPackage::tx_from before a worker has filled it
ZeroAddress == <<0, <<0>>>>

(***************************************************************************)
(* transform_and_fill_batch: the per-transaction checks, and the push of   *)
(* one RecoveryPackage per accepted transaction.                           *)
(***************************************************************************)
\* variant: a chain_id is accepted before Spurious Dragon
TxVerdict_NoDragonTest(config, block_num, tx) ==
    LET rev == revision(config, block_num)
        has_homestead == rev >= EVMC_HOMESTEAD
        has_berlin == rev >= EVMC_BERLIN
        has_london == rev >= EVMC_LONDON
    IN  IF tx.type = "kEip2930" /\ ~has_berlin THEN "kInvalidTransaction"
        ELSE IF tx.type = "kEip1559" /\ ~has_london THEN "kInvalidTransaction"
        ELSE IF ~is_valid_signature(tx.sig, has_homestead) THEN "kInvalidTransaction"
        ELSE IF tx.chain_id # {} /\ tx.chain_id # {config.chain_id} THEN "kInvalidTransaction"
        ELSE "kSuccess"

TxVerdict(config, block_num, tx) ==
    LET rev == revision(config, block_num)
        has_homestead == rev >= EVMC_HOMESTEAD
        has_spurious_dragon == rev >= EVMC_SPURIOUS_DRAGON
        has_berlin == rev >= EVMC_BERLIN
        has_london == rev >= EVMC_LONDON
    IN  IF tx.type = "kEip2930" /\ ~has_berlin THEN "kInvalidTransaction"
        ELSE IF tx.type = "kEip1559" /\ ~has_london THEN "kInvalidTransaction"
        ELSE IF ~is_valid_signature(tx.sig, has_homestead) THEN "kInvalidTransaction"
        ELSE IF tx.chain_id # {} /\ ~has_spurious_dragon THEN "kInvalidTransaction"
        ELSE IF tx.chain_id # {} /\ tx.chain_id # {config.chain_id} THEN "kInvalidTransaction"
        ELSE "kSuccess"

RecoveryPackage(block_num, tx_hash) ==
    [block_num |-> block_num, tx_hash |-> tx_hash, tx_from |-> ZeroAddress]

\* variant: batch_.push_front instead of push_back
RECURSIVE PushPackages_Front(_, _, _, _, _)
PushPackages_Front(config, block_num, transactions, i, batch) ==
    IF i > Len(transactions) THEN [result |-> "kSuccess", batch |-> batch]
    ELSE IF TxVerdict(config, block_num, transactions[i]) # "kSuccess"
         THEN [result |-> "kInvalidTransaction", batch |-> batch]
    ELSE PushPackages_Front(config, block_num, transactions, i + 1,
                            <<RecoveryPackage(block_num, keccak256(transactions[i].payload))>>
                                \o batch)

\* variant: the loop is left as soon as the batch holds MaxBatchSize packages, the
\* rest of the block being left out
RECURSIVE PushPackages_Split(_, _, _, _, _)
PushPackages_Split(config, block_num, transactions, i, batch) ==
    IF i > Len(transactions) \/ Len(batch) >= MaxBatchSize
    THEN [result |-> "kSuccess", batch |-> batch]
    ELSE IF TxVerdict(config, block_num, transactions[i]) # "kSuccess"
         THEN [result |-> "kInvalidTransaction", batch |-> batch]
    ELSE PushPackages_Split(config, block_num, transactions, i + 1,
                            Append(batch, RecoveryPackage(block_num, keccak256(transactions[i].payload))))

RECURSIVE PushPackages(_, _, _, _, _)
PushPackages(config, block_num, transactions, i, batch) ==
    IF i > Len(transactions) THEN [result |-> "kSuccess", batch |-> batch]
    ELSE IF TxVerdict(config, block_num, transactions[i]) # "kSuccess"
         THEN [result |-> "kInvalidTransaction", batch |-> batch]
    ELSE PushPackages(config, block_num, transactions, i + 1,
                      Append(batch, RecoveryPackage(block_num, keccak256(transactions[i].payload))))

(***************************************************************************)
(* fill_canonical_headers(from, to), up to its next read of is_stopping():  *)
(* "check" is the read of line 434, made after to_next when the next number *)
(* is a multiple of 1024, "end" the read of line 452.  `thrown` collects     *)
(* what headers_ holds at every cursor operation made on the way, which is   *)
(* what an mdbx::exception thrown by the operation leaves.  The result       *)
(* "assert" is a failed SILKWORM_ASSERT, which ends the process.             *)
(***************************************************************************)
HeaderEntry(txn_count, block_hash) == [txn_count |-> txn_count, block_hash |-> block_hash]

\* variant: once a header was read, the end of the table is taken for the end of the range
RECURSIVE HeadersWalk_NoReachCheck(_, _, _, _, _, _, _)
HeadersWalk_NoReachCheck(table, data, reached, expected, to, headers, thrown) ==
    IF ~data.done
    THEN [result |-> IF reached = 0 THEN "kBadChainSequence" ELSE "end",
          headers |-> headers, thrown |-> thrown]
    ELSE IF data.key # expected
    THEN [result |-> "assert", headers |-> headers, thrown |-> thrown]
    ELSE LET got == Append(headers, HeaderEntry(0, table[data.key]))
         IN  IF data.key = to
             THEN [result |-> "end", headers |-> got, thrown |-> thrown]
             ELSE IF (expected + 1) % kStopCheckInterval = 0
             THEN [result |-> "check", headers |-> got, thrown |-> thrown \cup {got}]
             ELSE HeadersWalk_NoReachCheck(table, NumNext(table, data.key), data.key,
                                           expected + 1, to, got, thrown \cup {got})

RECURSIVE HeadersWalk(_, _, _, _, _, _, _)
HeadersWalk(table, data, reached, expected, to, headers, thrown) ==
    IF ~data.done
    THEN [result |-> IF reached # to THEN "kBadChainSequence" ELSE "end",
          headers |-> headers, thrown |-> thrown]
    ELSE IF data.key # expected
    THEN [result |-> "assert", headers |-> headers, thrown |-> thrown]
    ELSE LET got == Append(headers, HeaderEntry(0, table[data.key]))
         IN  IF data.key = to
             THEN [result |-> "end", headers |-> got, thrown |-> thrown]
             ELSE IF (expected + 1) % kStopCheckInterval = 0
             THEN [result |-> "check", headers |-> got, thrown |-> thrown \cup {got}]
             ELSE HeadersWalk(table, NumNext(table, data.key), data.key, expected + 1, to,
                              got, thrown \cup {got})

\* from the start (open_cursor, find) when no header has been read, else from the row
\* that to_next gave before the read of line 434
fill_canonical_headers(table, from, to, headers) ==
    IF headers = <<>>
    THEN HeadersWalk(table, NumFind(table, from), 0, from, to, <<>>, {<<>>})
    ELSE LET last == from + Len(headers) - 1
         IN  HeadersWalk(table, NumNext(table, last), last, last + 1, to, headers, {})

(***************************************************************************)
(* collect_workers_results, for one worker batch: one collector record per *)
(* run of packages with the same block_num.  block_num starts at 0, so a   *)
(* package of block 0 opens no record.  `found` is false when headers_.at  *)
(* is out of range (std::out_of_range).                                    *)
(***************************************************************************)
EtlEntry(key, value, harvest) == [key |-> key, value |-> value, harvest |-> harvest]

\* variant: a record is flushed at every package, not at every change of block_num
RECURSIVE GroupPackages_PerPackage(_, _, _, _, _, _, _, _, _)
GroupPackages_PerPackage(worker_batch, i, block_num, etl_key, etl_data, headers, offset, harvest, out) ==
    IF i > Len(worker_batch)
    THEN [found |-> TRUE,
          out |-> IF etl_key # <<>> THEN Append(out, EtlEntry(etl_key[1], etl_data, harvest)) ELSE out]
    ELSE LET package == worker_batch[i]
             flushed == IF etl_key # <<>>
                        THEN Append(out, EtlEntry(etl_key[1], etl_data, harvest))
                        ELSE out
             idx == package.block_num - offset
         IN  IF idx < 0 \/ idx >= Len(headers)
             THEN [found |-> FALSE, out |-> flushed]
             ELSE GroupPackages_PerPackage(worker_batch, i + 1, package.block_num,
                                           <<block_key(package.block_num, headers[idx + 1].block_hash)>>,
                                           <<package.tx_from>>, headers, offset, harvest, flushed)

RECURSIVE GroupPackages(_, _, _, _, _, _, _, _, _)
GroupPackages(worker_batch, i, block_num, etl_key, etl_data, headers, offset, harvest, out) ==
    IF i > Len(worker_batch)
    THEN [found |-> TRUE,
          out |-> IF etl_key # <<>> THEN Append(out, EtlEntry(etl_key[1], etl_data, harvest)) ELSE out]
    ELSE LET package == worker_batch[i]
         IN  IF package.block_num # block_num
             THEN LET flushed == IF etl_key # <<>>
                                 THEN Append(out, EtlEntry(etl_key[1], etl_data, harvest))
                                 ELSE out
                      idx == package.block_num - offset
                  IN  IF idx < 0 \/ idx >= Len(headers)
                      THEN [found |-> FALSE, out |-> flushed]
                      ELSE GroupPackages(worker_batch, i + 1, package.block_num,
                                         <<block_key(package.block_num, headers[idx + 1].block_hash)>>,
                                         <<package.tx_from>>, headers, offset, harvest, flushed)
             ELSE GroupPackages(worker_batch, i + 1, block_num, etl_key,
                                Append(etl_data, package.tx_from), headers, offset, harvest, out)

(***************************************************************************)
(* State.                                                                  *)
(***************************************************************************)
VARIABLES
    \* the store: tables read, and the committed and in-transaction views
    canonical,              \* CanonicalHashes: block number -> hash
    bodies,                 \* BlockBodies: block_key -> transactions of the body
    chain_config,           \* node_settings_->chain_config
    hardware_concurrency,   \* std::thread::hardware_concurrency(): max_workers_ of a new farm
    db_progress,            \* StageProgress as committed
    db_senders,             \* Senders as committed: block_key -> addresses
    txn_progress,           \* StageProgress as seen through txn_
    txn_senders,            \* Senders as seen through txn_
    committed,              \* txn_.commit() has been executed
    \* RecoveryFarm
    pc,                     \* where recover() is
    ret,                    \* Stage::Result of recover()
    stopping,               \* what is_stopping() returns
    batch_size_,
    max_workers_,
    current_phase_,
    headers_,
    headers_it_1_,          \* index into headers_, Len(headers_) + 1 at end()
    header_index_offset_,
    target_progress,
    expected_block_number,
    reached_block_num,
    body_data,              \* the bodies cursor: [done, key]
    batch_,
    collector_,             \* records collected, in the order of collect()
    workers_,               \* ids of the workers of the pool, in creation order
    harvestable_workers_,   \* FIFO of worker ids
    harvestable_worker,     \* collect_workers_results: <<id>> of the worker being served, or <<>>
    workers_in_flight_,
    dispatch_from,          \* caller of the running dispatch_batch
    stop_index,             \* stop_all_workers: position in workers_
    \* RecoveryWorker, per worker id
    wstate,                 \* "none", "unstarted", "idle", "kick_waiting", "working", "stopped"
    wbatch,                 \* the worker's batch_
    wstop,                  \* stop() has been called on the worker
    wexception,             \* has_exception()
    \* environment and history
    events,                 \* environment events still allowed in this run
    stop_seen,              \* where the farm first read is_stopping() = true
    fault_seen,             \* a worker stopped with its error flag before the commit
    harvests,               \* number of worker batches reclaimed so far
    pre_progress,           \* StageProgress as committed when the running call was made
    pre_senders,            \* Senders as committed when the running call was made
    spawn_failed,           \* caller of the dispatch_batch that failed to create a first worker
    call,                   \* the call being served: "first", "again", "unwind", ...
    unwind_to,              \* argument of the unwind call
    prune_from,             \* argument of the prune call
    first_run,              \* the store before the first call, and what that call returned
    harvest_failed          \* caller of the collect_workers_results that caught an exception

storeVars == <<canonical, bodies, chain_config, hardware_concurrency, pre_progress, pre_senders>>

dbVars == <<db_progress, db_senders, txn_progress, txn_senders, committed>>

walkVars == <<headers_, headers_it_1_, header_index_offset_, target_progress,
              expected_block_number, reached_block_num, body_data>>

poolVars == <<workers_, harvestable_workers_, harvestable_worker, workers_in_flight_, wstate,
              wbatch, wstop, wexception>>

cfgVars == <<batch_size_, max_workers_>>

callVars == <<call, unwind_to, prune_from, first_run, harvest_failed>>

vars == <<canonical, bodies, chain_config, hardware_concurrency, db_progress, db_senders, txn_progress, txn_senders,
          committed, pc, ret, stopping, batch_size_, max_workers_, current_phase_, headers_,
          headers_it_1_, header_index_offset_, target_progress, expected_block_number,
          reached_block_num, body_data, batch_, collector_, workers_, harvestable_workers_,
          harvestable_worker, workers_in_flight_, dispatch_from, stop_index, wstate, wbatch, wstop, wexception,
          events, stop_seen, fault_seen, harvests, pre_progress, pre_senders, spawn_failed,
          call, unwind_to, prune_from, first_run, harvest_failed>>

WorkerIds == 0 .. (MaxWorkers - 1)

(***************************************************************************)
(* Scenarios: what the store holds when recover() is called.               *)
(***************************************************************************)
Bases == {0, kStopCheckInterval - 2}

\* heights are counted from the scenario's base
Heights == 1 .. MaxBlock

\* every revision up to Istanbul from genesis, Berlin and later never
ScenarioConfig ==
    [chain_id |-> 1,
     evmc_fork_blocks |-> [i \in 1 .. EVMC_MAX_REVISION |-> IF i < EVMC_BERLIN THEN {0} ELSE {}]]

Payload(num, hash, i) == (((num % 8) * 4 + hash[1]) * 4 + hash[2]) * 4 + i

GoodTxs(num, hash, n) == [i \in 1 .. n |-> Tx("kLegacy", {}, "ok", Payload(num, hash, i))]

\* the same, the last transaction being an EIP-2930 one
BadTxs(num, hash, n) ==
    [i \in 1 .. n |-> Tx(IF i = n THEN "kEip2930" ELSE "kLegacy", {}, "ok", Payload(num, hash, i))]

Restrict(f, S) == [x \in S |-> f[x]]

NominalCanonical(base, top) == [h \in base .. (base + top) |-> CanonHash]

NominalBodies(base, top, count) ==
    [k \in {block_key(h, CanonHash) : h \in (base + 1) .. (base + top)} |->
        GoodTxs(KeyNum(k), CanonHash, count[KeyNum(k) - base])]

\* the senders rows earlier runs have committed: one row for every block up to the
\* progress whose body has transactions, holding one address for every transaction
NominalSenders(base, top, count) ==
    [k \in {block_key(h, CanonHash) : h \in {n \in (base + 1) .. (base + top) : count[n - base] > 0}} |->
        [i \in 1 .. count[KeyNum(k) - base] |->
            RecoveredAddress(keccak256(Payload(KeyNum(k), CanonHash, i)))]]

\* one irregularity of the tables at height h
NoAnomaly == <<"none", 0, CanonHash>>

Anomalies ==
    {NoAnomaly}
    \cup {<<"no_body", h, CanonHash>> : h \in Heights}
    \cup {<<"no_hash", h, CanonHash>> : h \in Heights}
    \cup {<<"bad_tx", h, CanonHash>> : h \in Heights}
    \cup {<<"sibling", h, s>> : h \in Heights, s \in SiblingHashes}
    \cup {<<"replaced", h, s>> : h \in Heights, s \in SiblingHashes}

WithAnomaly(table, which, base, a) ==
    LET key == block_key(base + a[2], CanonHash)
        sib == block_key(base + a[2], a[3])
    IN  IF which = "canonical"
        THEN IF a[1] = "no_hash" THEN Restrict(table, DOMAIN table \ {base + a[2]}) ELSE table
        ELSE IF a[1] = "no_body" THEN Restrict(table, DOMAIN table \ {key})
        ELSE IF a[1] = "bad_tx" /\ key \in DOMAIN table
             THEN [table EXCEPT ![key] = BadTxs(base + a[2], CanonHash, Len(table[key]))]
        ELSE IF a[1] = "sibling"
             THEN [k \in DOMAIN table \cup {sib} |->
                      IF k = sib THEN GoodTxs(base + a[2], a[3], 1) ELSE table[k]]
        ELSE IF a[1] = "replaced"
             THEN [k \in (DOMAIN table \ {key}) \cup {sib} |->
                      IF k = sib THEN GoodTxs(base + a[2], a[3], 1) ELSE table[k]]
        ELSE table

Scenario(base, prev, hashes, bods, count, anomaly, bsize, nworkers, nevents) ==
    [base |-> base, previous |-> prev, hashes |-> hashes, bodies |-> bods, count |-> count,
     anomaly |-> anomaly, batch_size |-> bsize, max_workers |-> nworkers, events |-> nevents]

\* every combination of the three progress values, over regular tables
ProgressScenarios ==
    {Scenario(base, prev, hp, bp, [h \in Heights |-> 1], NoAnomaly, MaxBatchSize, 1, 0) :
        base \in Bases, prev \in 0 .. MaxBlock, hp \in 0 .. MaxBlock, bp \in 0 .. MaxBlock}

\* transactions per block: the same number everywhere, one block or all blocks empty
CountShapes ==
    {[h \in Heights |-> IF h = z THEN 0 ELSE c] : z \in 0 .. MaxBlock, c \in 0 .. MaxTxs}

\* every content of the tables, one irregularity at most
ContentScenarios ==
    {Scenario(base, prev, MaxBlock, MaxBlock, count, anomaly, MaxBatchSize, 1, 0) :
        base \in Bases, prev \in 0 .. 1, count \in CountShapes, anomaly \in Anomalies}

\* regular tables, every pool and batch size, with environment events
FarmScenarios ==
    {Scenario(0, 0, MaxBlock - 1, MaxBlock - 1, [h \in Heights |-> c], NoAnomaly,
              bsize, nworkers, MaxEvents) :
        c \in 0 .. MaxTxs, bsize \in 0 .. MaxBatchSize, nworkers \in 1 .. MaxWorkers}

\* a range that crosses a multiple of kStopCheckInterval, with environment events
StopScenarios ==
    {Scenario(kStopCheckInterval - 2, 0, MaxBlock, MaxBlock, [h \in Heights |-> 1], anomaly,
              MaxBatchSize, 1, MaxEvents) :
        anomaly \in {NoAnomaly, <<"bad_tx", MaxBlock, CanonHash>>,
                     <<"no_hash", MaxBlock, CanonHash>>, <<"sibling", 1, <<3, 2>>>>}}

\* an empty range and a range whose previous progress is above the target, with
\* environment events
EdgeScenarios ==
    {Scenario(0, prev, 1, 1, [h \in Heights |-> 1], NoAnomaly, MaxBatchSize, 1, MaxEvents) :
        prev \in 1 .. 2}

Scenarios ==
    ProgressScenarios \cup ContentScenarios \cup FarmScenarios \cup StopScenarios \cup EdgeScenarios

\* two irregularities: a block that holds an EIP-2930 transaction, and a body row that
\* is missing or has a sibling row at the same height
PairedScenarios ==
    {[base |-> 0, previous |-> prev, bad |-> <<"bad_tx", h, CanonHash>>, other |-> other] :
        prev \in 0 .. 1, h \in Heights,
        other \in {<<"no_body", g, CanonHash>> : g \in Heights}
                  \cup {<<"sibling", g, sib>> : g \in Heights, sib \in SiblingHashes}}

Stages == {"Senders", "BlockHashes", "BlockBodies"}

InitWith(s, config, canonical_table, bodies_table) ==
    LET progress == [k \in Stages |->
                        s.base + (IF k = "Senders" THEN s.previous
                                  ELSE IF k = "BlockHashes" THEN s.hashes ELSE s.bodies)]
        senders == NominalSenders(s.base, s.previous, s.count)
    IN  /\ canonical = canonical_table
        /\ bodies = bodies_table
        /\ chain_config = config
        /\ hardware_concurrency = s.max_workers
        /\ db_progress = progress
        /\ txn_progress = progress
        /\ db_senders = senders
        /\ txn_senders = senders
        /\ committed = FALSE
        /\ pc = "start"
        /\ ret = "kSuccess"
        /\ stopping = FALSE
        /\ batch_size_ = s.batch_size
        /\ max_workers_ = s.max_workers
        /\ current_phase_ = 0
        /\ headers_ = <<>>
        /\ headers_it_1_ = 1
        /\ header_index_offset_ = 0
        /\ target_progress = 0
        /\ expected_block_number = 0
        /\ reached_block_num = 0
        /\ body_data = [done |-> FALSE, key |-> NoKey]
        /\ batch_ = <<>>
        /\ collector_ = <<>>
        /\ workers_ = <<>>
        /\ harvestable_workers_ = <<>>
        /\ harvestable_worker = <<>>
        /\ workers_in_flight_ = 0
        /\ dispatch_from = "none"
        /\ stop_index = 1
        /\ wstate = [w \in WorkerIds |-> "none"]
        /\ wbatch = [w \in WorkerIds |-> <<>>]
        /\ wstop = [w \in WorkerIds |-> FALSE]
        /\ wexception = [w \in WorkerIds |-> FALSE]
        /\ events = s.events
        /\ stop_seen = "nowhere"
        /\ fault_seen = FALSE
        /\ harvests = 0
        /\ pre_progress = progress
        /\ pre_senders = senders
        /\ spawn_failed = "none"
        /\ call = "first"
        /\ unwind_to = 0
        /\ prune_from = 0
        /\ harvest_failed = "none"
        /\ first_run = [progress |-> progress, senders |-> senders, ret |-> "none"]

InitFrom(s) ==
    InitWith(s, ScenarioConfig,
             WithAnomaly(NominalCanonical(s.base, s.hashes), "canonical", s.base, s.anomaly),
             WithAnomaly(NominalBodies(s.base, s.bodies, s.count), "bodies", s.base, s.anomaly))

(***************************************************************************)
(* Fork scenarios: blocks 1 and 2, revision `fork` activating at block 2,  *)
(* the earlier revisions at genesis, the later ones never.  One block      *)
(* holds the transaction under test, the other a plain legacy one.         *)
(***************************************************************************)
ForkBlock == 2

ForkConfig(fork) ==
    [chain_id |-> 1,
     evmc_fork_blocks |-> [i \in 1 .. EVMC_MAX_REVISION |->
                              IF i < fork THEN {0} ELSE IF i = fork THEN {ForkBlock} ELSE {}]]

TxTypes == {"kLegacy", "kEip2930", "kEip1559"}

ForkScenarios ==
    {[fork |-> fork, at |-> at, tx |-> Tx(type, chain_id, sig, 1)] :
        fork \in {EVMC_HOMESTEAD, EVMC_SPURIOUS_DRAGON, EVMC_BERLIN, EVMC_LONDON},
        at \in {ForkBlock - 1, ForkBlock},
        type \in TxTypes, chain_id \in {{}, {1}, {2}}, sig \in {"ok", "high_s", "bad"}}

ForkBodies(f) ==
    [k \in {block_key(h, CanonHash) : h \in 1 .. ForkBlock} |->
        IF KeyNum(k) = f.at THEN <<f.tx>> ELSE GoodTxs(KeyNum(k), CanonHash, 1)]

InitFork(f) ==
    InitWith(Scenario(0, 0, ForkBlock, ForkBlock, [h \in Heights |-> 1], NoAnomaly, 1, 1, 0),
             ForkConfig(f.fork), NominalCanonical(0, ForkBlock), ForkBodies(f))

InitPaired(p) ==
    InitWith(Scenario(p.base, p.previous, MaxBlock, MaxBlock, [h \in Heights |-> 1], p.bad,
                      MaxBatchSize, 1, 0),
             ScenarioConfig, NominalCanonical(p.base, MaxBlock),
             WithAnomaly(WithAnomaly(NominalBodies(p.base, MaxBlock, [h \in Heights |-> 1]),
                                     "bodies", p.base, p.bad),
                         "bodies", p.base, p.other))

Init ==
    \/ \E s \in Scenarios : InitFrom(s)
    \/ \E f \in ForkScenarios : InitFork(f)
    \/ \E p \in PairedScenarios : InitPaired(p)

(***************************************************************************)
(* recover(): stage boundaries and phase 1.                                *)
(***************************************************************************)
Min(a, b) == IF a <= b THEN a ELSE b

\* history: the first place where the farm read is_stopping() = true
Seen(where) == IF stop_seen = "nowhere" THEN where ELSE stop_seen

\* a throw inside the try block: the catch clauses set ret, then the workers are stopped
Throw(result) ==
    /\ ret' = result
    /\ pc' = "cleanup"

\* variant: the test previous_progress == target_progress is missing
Start_NoEmptyCheck ==
    /\ pc = "start"
    /\ LET previous_progress == txn_progress["Senders"]
           target == Min(txn_progress["BlockHashes"], txn_progress["BlockBodies"])
       IN  /\ target_progress' = target
           /\ IF previous_progress > target
              THEN /\ Throw("kInvalidProgress")
                   /\ UNCHANGED <<expected_block_number, current_phase_>>
              ELSE /\ expected_block_number' = previous_progress + 1
                   /\ current_phase_' = 1
                   /\ pc' = "phase1"
                   /\ UNCHANGED ret
    /\ UNCHANGED <<storeVars, dbVars, cfgVars, poolVars, stopping, headers_, headers_it_1_,
                   header_index_offset_, reached_block_num, body_data, batch_, collector_,
                   dispatch_from, stop_index, events, stop_seen, fault_seen, harvests, spawn_failed, callVars>>

\* variant: the test previous_progress > target_progress is missing
Start_NoInvalidCheck ==
    /\ pc = "start"
    /\ LET previous_progress == txn_progress["Senders"]
           target == Min(txn_progress["BlockHashes"], txn_progress["BlockBodies"])
       IN  /\ target_progress' = target
           /\ IF previous_progress = target
              THEN /\ pc' = "done"
                   /\ UNCHANGED <<ret, expected_block_number, current_phase_>>
              ELSE /\ expected_block_number' = previous_progress + 1
                   /\ current_phase_' = 1
                   /\ pc' = "phase1"
                   /\ UNCHANGED ret
    /\ UNCHANGED <<storeVars, dbVars, cfgVars, poolVars, stopping, headers_, headers_it_1_,
                   header_index_offset_, reached_block_num, body_data, batch_, collector_,
                   dispatch_from, stop_index, events, stop_seen, fault_seen, harvests, spawn_failed, callVars>>

Start ==
    /\ pc = "start"
    /\ LET previous_progress == txn_progress["Senders"]
           target == Min(txn_progress["BlockHashes"], txn_progress["BlockBodies"])
       IN  /\ target_progress' = target
           /\ IF previous_progress = target
              THEN /\ pc' = "done"
                   /\ UNCHANGED <<ret, expected_block_number, current_phase_>>
              ELSE IF previous_progress > target
              THEN /\ Throw("kInvalidProgress")
                   /\ UNCHANGED <<expected_block_number, current_phase_>>
              ELSE /\ expected_block_number' = previous_progress + 1
                   /\ current_phase_' = 1
                   /\ pc' = "phase1"
                   /\ UNCHANGED ret
    /\ UNCHANGED <<storeVars, dbVars, cfgVars, poolVars, stopping, headers_, headers_it_1_,
                   header_index_offset_, reached_block_num, body_data, batch_, collector_,
                   dispatch_from, stop_index, events, stop_seen, fault_seen, harvests, spawn_failed, callVars>>

\* the walk of fill_canonical_headers from where it is to its next read of the stop flag
HeadersSegment ==
    LET r == fill_canonical_headers(canonical, expected_block_number, target_progress, headers_)
    IN  /\ headers_' = r.headers
        /\ IF r.result = "assert" THEN pc' = "aborted" /\ UNCHANGED ret
           ELSE IF r.result = "kBadChainSequence" THEN Throw(r.result)
           ELSE /\ pc' = IF r.result = "check" THEN "h_check" ELSE "h_ret"
                /\ UNCHANGED ret

\* fill_canonical_headers: open_cursor, find and the loop up to the first read of the
\* stop flag
FillHeaders ==
    /\ pc = "phase1"
    /\ HeadersSegment
    /\ UNCHANGED <<headers_it_1_, header_index_offset_, current_phase_, body_data,
                   reached_block_num, stop_seen>>
    /\ UNCHANGED <<storeVars, dbVars, cfgVars, poolVars, stopping, target_progress,
                   expected_block_number, batch_, collector_, dispatch_from, stop_index,
                   events, fault_seen, harvests, spawn_failed, callVars>>

\* line 434, the next number being a multiple of 1024: is_stopping(), then the loop
\* goes on to the next read of the flag
FillHeadersCheck ==
    /\ pc = "h_check"
    /\ IF stopping
       THEN /\ Throw("kAborted")
            /\ stop_seen' = Seen("phase1")
            /\ UNCHANGED headers_
       ELSE /\ HeadersSegment
            /\ UNCHANGED stop_seen
    /\ UNCHANGED <<headers_it_1_, header_index_offset_, current_phase_, body_data,
                   reached_block_num>>
    /\ UNCHANGED <<storeVars, dbVars, cfgVars, poolVars, stopping, target_progress,
                   expected_block_number, batch_, collector_, dispatch_from, stop_index,
                   events, fault_seen, harvests, spawn_failed, callVars>>

\* variant: header_index_offset_ is set to previous_progress
FillHeadersReturn_OffsetAtProgress ==
    /\ pc = "h_ret"
    /\ IF stopping
       THEN /\ Throw("kAborted")
            /\ stop_seen' = Seen("phase1")
            /\ UNCHANGED <<header_index_offset_, current_phase_, body_data>>
       ELSE /\ header_index_offset_' = expected_block_number - 1
            /\ current_phase_' = 2
            /\ body_data' = CursorFind(bodies, block_key(expected_block_number,
                                                          headers_[1].block_hash))
            /\ pc' = "walk"
            /\ UNCHANGED <<ret, stop_seen>>
    /\ headers_it_1_' = 1
    /\ reached_block_num' = 0
    /\ UNCHANGED headers_
    /\ UNCHANGED <<storeVars, dbVars, cfgVars, poolVars, stopping, target_progress,
                   expected_block_number, batch_, collector_, dispatch_from, stop_index,
                   events, fault_seen, harvests, spawn_failed, callVars>>

\* lines 444-452 and 69-82: headers_it_1_ = headers_.begin(), the read of the stop flag
\* at the return, then header_index_offset_, phase 2 and the find of the first body row
FillHeadersReturn ==
    /\ pc = "h_ret"
    /\ IF stopping
       THEN /\ Throw("kAborted")
            /\ stop_seen' = Seen("phase1")
            /\ UNCHANGED <<header_index_offset_, current_phase_, body_data>>
       ELSE /\ header_index_offset_' = expected_block_number
            /\ current_phase_' = 2
            /\ body_data' = CursorFind(bodies, block_key(expected_block_number,
                                                          headers_[1].block_hash))
            /\ pc' = "walk"
            /\ UNCHANGED <<ret, stop_seen>>
    /\ headers_it_1_' = 1
    /\ reached_block_num' = 0
    /\ UNCHANGED headers_
    /\ UNCHANGED <<storeVars, dbVars, cfgVars, poolVars, stopping, target_progress,
                   expected_block_number, batch_, collector_, dispatch_from, stop_index,
                   events, fault_seen, harvests, spawn_failed, callVars>>

(***************************************************************************)
(* recover(): phase 2, one iteration of the walk over the bodies table.    *)
(***************************************************************************)
\* memcmp(&key[8], block_hash.bytes, sizeof(kHashLength)) == 0
SameHash(key_hash, block_hash) == HashPrefix(key_hash) = HashPrefix(block_hash)

\* ++headers_it_1_, and either the break or the move to the next row
Advance ==
    /\ headers_it_1_' = headers_it_1_ + 1
    /\ IF headers_it_1_ + 1 > Len(headers_)
       THEN /\ pc' = "post_walk"
            /\ UNCHANGED <<expected_block_number, body_data>>
       ELSE /\ pc' = "walk"
            /\ expected_block_number' = expected_block_number + 1
            /\ body_data' = CursorNext(bodies, body_data.key)

WalkEnd ==
    /\ pc = "walk"
    /\ ~body_data.done
    /\ pc' = "post_walk"
    /\ UNCHANGED <<storeVars, dbVars, cfgVars, poolVars, walkVars, ret, stopping, current_phase_,
                   batch_, collector_, dispatch_from, stop_index, events, stop_seen,
                   fault_seen, harvests, spawn_failed, callVars>>

WalkSkip ==
    /\ pc = "walk"
    /\ body_data.done
    /\ \/ KeyNum(body_data.key) < expected_block_number
       \/ /\ KeyNum(body_data.key) = expected_block_number
          /\ ~SameHash(KeyHash(body_data.key), headers_[headers_it_1_].block_hash)
    /\ reached_block_num' = KeyNum(body_data.key)
    /\ body_data' = CursorNext(bodies, body_data.key)
    /\ UNCHANGED <<storeVars, dbVars, cfgVars, poolVars, pc, ret, stopping, current_phase_,
                   headers_, headers_it_1_, header_index_offset_, target_progress,
                   expected_block_number, batch_, collector_, dispatch_from, stop_index,
                   events, stop_seen, fault_seen, harvests, spawn_failed, callVars>>

WalkSurpassed ==
    /\ pc = "walk"
    /\ body_data.done
    /\ KeyNum(body_data.key) > expected_block_number
    /\ reached_block_num' = KeyNum(body_data.key)
    /\ Throw("kBadChainSequence")
    /\ UNCHANGED <<storeVars, dbVars, cfgVars, poolVars, stopping, current_phase_,
                   headers_, headers_it_1_, header_index_offset_, target_progress,
                   expected_block_number, body_data, batch_, collector_, dispatch_from,
                   stop_index, events, stop_seen, fault_seen, harvests, spawn_failed, callVars>>

\* the row of the expected block: the stop check of line 107, then the body; an empty
\* block moves the walk on, a block with transactions has them read for
\* transform_and_fill_batch
WalkBlock ==
    /\ pc = "walk"
    /\ body_data.done
    /\ KeyNum(body_data.key) = expected_block_number
    /\ SameHash(KeyHash(body_data.key), headers_[headers_it_1_].block_hash)
    /\ LET num == KeyNum(body_data.key)
           transactions == bodies[body_data.key]
       IN  /\ reached_block_num' = num
           /\ IF num % kStopCheckInterval = 0 /\ stopping
              THEN /\ Throw("kAborted")
                   /\ stop_seen' = Seen("walk")
                   /\ UNCHANGED <<headers_, headers_it_1_, expected_block_number, body_data>>
              ELSE IF Len(transactions) = 0
              THEN /\ Advance
                   /\ UNCHANGED <<ret, headers_, stop_seen>>
              ELSE /\ headers_' = [headers_ EXCEPT ![headers_it_1_].txn_count = Len(transactions)]
                   /\ pc' = "t_enter"
                   /\ UNCHANGED <<ret, headers_it_1_, expected_block_number, body_data, stop_seen>>
    /\ UNCHANGED <<storeVars, dbVars, cfgVars, poolVars, stopping, current_phase_,
                   header_index_offset_, target_progress, batch_, collector_, dispatch_from,
                   stop_index, events, fault_seen, harvests, spawn_failed, callVars>>

\* transform_and_fill_batch(reached_block_num, transactions): the read of the stop flag
\* of line 263, the packages pushed, and the overflow test of line 323
TransformAndFillBatch ==
    /\ pc = "t_enter"
    /\ LET pushed == PushPackages(chain_config, reached_block_num, bodies[body_data.key], 1, batch_)
       IN  IF stopping
           THEN /\ Throw("kAborted")
                /\ stop_seen' = Seen("transform")
                /\ UNCHANGED <<batch_, dispatch_from>>
           ELSE /\ batch_' = pushed.batch
                /\ UNCHANGED stop_seen
                /\ IF pushed.result # "kSuccess"
                   THEN Throw("kInvalidTransaction") /\ UNCHANGED dispatch_from
                   ELSE IF Len(pushed.batch) > batch_size_
                   THEN /\ pc' = "d_collect"
                        /\ dispatch_from' = "walk"
                        /\ UNCHANGED ret
                   ELSE /\ pc' = "t_ret"
                        /\ UNCHANGED <<ret, dispatch_from>>
    /\ UNCHANGED <<storeVars, dbVars, cfgVars, poolVars, walkVars, stopping, current_phase_,
                   collector_, stop_index, events, fault_seen, harvests, spawn_failed, callVars>>

\* the return of transform_and_fill_batch (line 330), reached with no overflow or after
\* its dispatch_batch returned true; on Success the walk moves on
TransformReturn ==
    /\ pc = "t_ret"
    /\ IF stopping
       THEN /\ Throw("kAborted")
            /\ stop_seen' = Seen("transform")
            /\ UNCHANGED <<headers_it_1_, expected_block_number, body_data>>
       ELSE /\ Advance
            /\ UNCHANGED <<ret, stop_seen>>
    /\ UNCHANGED <<storeVars, dbVars, cfgVars, poolVars, stopping, current_phase_, headers_,
                   header_index_offset_, target_progress, reached_block_num, batch_,
                   collector_, dispatch_from, stop_index, events, fault_seen, harvests, spawn_failed, callVars>>

\* variant: the stop sets the result and the run goes on, nothing being thrown
PostWalk_NoThrow ==
    /\ pc = "post_walk"
    /\ ret' = IF stopping THEN "kAborted" ELSE ret
    /\ stop_seen' = IF stopping THEN Seen("post_walk") ELSE stop_seen
    /\ pc' = "d_collect"
    /\ dispatch_from' = "final"
    /\ UNCHANGED <<storeVars, dbVars, cfgVars, poolVars, walkVars, stopping, current_phase_,
                   batch_, collector_, stop_index, events, fault_seen, harvests, spawn_failed, callVars>>

\* after the walk: if (is_stopping()) throw; then the last dispatch_batch
PostWalk ==
    /\ pc = "post_walk"
    /\ IF stopping
       THEN /\ Throw("kAborted")
            /\ stop_seen' = Seen("post_walk")
            /\ UNCHANGED dispatch_from
       ELSE /\ pc' = "d_collect"
            /\ dispatch_from' = "final"
            /\ UNCHANGED <<ret, stop_seen>>
    /\ UNCHANGED <<storeVars, dbVars, cfgVars, poolVars, walkVars, stopping, current_phase_,
                   batch_, collector_, stop_index, events, fault_seen, harvests, spawn_failed, callVars>>

(***************************************************************************)
(* collect_workers_results(): the harvestable workers are served one at a  *)
(* time, workers_mtx_ being taken for each get_harvestable_worker() only.  *)
(* Reclaiming the buffer of a worker that is working is a data race: the   *)
(* farm gets the packages with the first `race` of them recovered.         *)
(***************************************************************************)
Recovered(batch, n) ==
    [i \in 1 .. Len(batch) |->
        IF i <= n THEN [batch[i] EXCEPT !.tx_from = RecoveredAddress(batch[i].tx_hash)]
        ELSE batch[i]]

\* one iteration of the loop, for the worker that get_harvestable_worker() gave
HarvestWorker(id, race) ==
    LET worker_batch == IF wstate[id] = "working" THEN Recovered(wbatch[id], race)
                        ELSE wbatch[id]
        grouped == GroupPackages(worker_batch, 1, 0, <<>>, <<>>, headers_,
                                 header_index_offset_, harvests + 1, collector_)
    IN  [ok |-> grouped.found, buffers |-> [wbatch EXCEPT ![id] = <<>>],
         records |-> grouped.out]

\* how far a raced worker can have got: 0 when the worker is not working
Races(id) == IF wstate[id] = "working" THEN 0 .. Len(wbatch[id]) ELSE {0}

(***************************************************************************)
(* dispatch_batch().                                                       *)
(***************************************************************************)
\* the return of dispatch_batch to its caller
Returned(value) ==
    IF dispatch_from = "walk"
    THEN IF value THEN pc' = "t_ret" /\ UNCHANGED ret
         ELSE Throw("kUnexpectedError")
    ELSE /\ pc' = IF value THEN "wait" ELSE "write_progress"
         /\ UNCHANGED ret

\* the loop condition: !is_stopping(), then the call of collect_workers_results()
DispatchCollect ==
    /\ pc = "d_collect"
    /\ IF stopping
       THEN /\ Returned(TRUE)
            /\ stop_seen' = Seen("dispatch")
       ELSE /\ pc' = "d_harvest"
            /\ UNCHANGED <<ret, stop_seen>>
    /\ UNCHANGED <<storeVars, dbVars, cfgVars, walkVars, poolVars, stopping, current_phase_,
                   batch_, collector_, dispatch_from, stop_index, events, fault_seen,
                   harvests, spawn_failed, callVars>>

\* get_harvestable_worker() with a worker queued: under workers_mtx_ the front of the
\* queue is popped
CollectPop ==
    /\ pc \in {"d_harvest", "collect"}
    /\ harvestable_worker = <<>>
    /\ harvestable_workers_ # <<>>
    /\ harvestable_worker' = <<Head(harvestable_workers_)>>
    /\ harvestable_workers_' = Tail(harvestable_workers_)
    /\ UNCHANGED <<storeVars, dbVars, cfgVars, walkVars, pc, ret, stopping, current_phase_,
                   batch_, collector_, workers_, workers_in_flight_, wstate, wbatch, wstop,
                   wexception, dispatch_from, stop_index, events, stop_seen, fault_seen,
                   harvests, spawn_failed, callVars>>

\* collect_workers_results(): the buffer of the worker popped is reclaimed and grouped
\* into collector records.  headers_.at out of range is caught: stop() and return
\* false, after which dispatch_batch returns is_stopping().
CollectWorker ==
    /\ pc \in {"d_harvest", "collect"}
    /\ harvestable_worker # <<>>
    /\ \E race \in Races(harvestable_worker[1]) :
          LET got == HarvestWorker(harvestable_worker[1], race)
          IN  /\ wbatch' = got.buffers
              /\ collector_' = got.records
              /\ harvests' = harvests + 1
              /\ stopping' = (stopping \/ ~got.ok)
              /\ harvest_failed' = IF got.ok THEN harvest_failed
                                   ELSE IF pc = "collect" THEN "phase3" ELSE dispatch_from
              /\ IF got.ok THEN UNCHANGED <<pc, ret, stop_seen>>
                 ELSE IF pc = "d_harvest"
                 THEN Returned(TRUE) /\ stop_seen' = Seen("dispatch")
                 ELSE pc' = "load" /\ UNCHANGED <<ret, stop_seen>>
    /\ harvestable_worker' = <<>>
    /\ UNCHANGED <<storeVars, dbVars, cfgVars, walkVars, current_phase_, batch_, workers_,
                   harvestable_workers_, workers_in_flight_, wstate, wstop, wexception,
                   dispatch_from, stop_index, events, fault_seen, spawn_failed, call,
                   unwind_to, prune_from, first_run>>

\* get_harvestable_worker() with nothing queued: collect_workers_results() returns true;
\* in phase 3 the result is not read
CollectReturns ==
    /\ pc \in {"d_harvest", "collect"}
    /\ harvestable_worker = <<>>
    /\ harvestable_workers_ = <<>>
    /\ pc' = IF pc = "d_harvest" THEN "d_find" ELSE "load"
    /\ UNCHANGED <<storeVars, dbVars, cfgVars, walkVars, poolVars, ret, stopping,
                   current_phase_, batch_, collector_, dispatch_from, stop_index, events,
                   stop_seen, fault_seen, harvests, spawn_failed, callVars>>

KickWaiting == {i \in 1 .. Len(workers_) : wstate[workers_[i]] = "kick_waiting"}

\* a worker in kKickWaiting is found: set_work(batch_, kick = true) swaps the buffers
DispatchToWorker ==
    /\ pc = "d_find"
    /\ KickWaiting # {}
    /\ LET w == workers_[MinNum(KickWaiting)]
       IN  /\ wbatch' = [wbatch EXCEPT ![w] = batch_]
           /\ batch_' = wbatch[w]
           /\ wstate' = [wstate EXCEPT ![w] = "working"]
    /\ pc' = "d_inc"
    /\ UNCHANGED <<storeVars, dbVars, cfgVars, walkVars, ret, stopping, current_phase_,
                   collector_, workers_, harvestable_workers_, harvestable_worker, workers_in_flight_, wstop,
                   wexception, dispatch_from, stop_index, events, stop_seen, fault_seen,
                   harvests, spawn_failed, callVars>>

\* workers_in_flight_++; batch_.clear(); return true
DispatchCount ==
    /\ pc = "d_inc"
    /\ workers_in_flight_' = workers_in_flight_ + 1
    /\ batch_' = <<>>
    /\ Returned(TRUE)
    /\ UNCHANGED <<storeVars, dbVars, cfgVars, walkVars, stopping, current_phase_, collector_,
                   workers_, harvestable_workers_, harvestable_worker, wstate, wbatch, wstop, wexception,
                   dispatch_from, stop_index, events, stop_seen, fault_seen, harvests, spawn_failed, callVars>>

\* after initialize_new_worker() returned false, the pool being `pool`
SpawnFailed(pool) ==
    IF pool = <<>>
    THEN Returned(FALSE) /\ UNCHANGED max_workers_
    ELSE /\ max_workers_' = Len(pool)
         /\ pc' = "d_collect"
         /\ UNCHANGED ret

\* variant: the pool grows whatever max_workers_ is
DispatchSpawn_NoCap ==
    /\ pc = "d_find"
    /\ KickWaiting = {}
    /\ Len(workers_) < MaxWorkers
    /\ IF stopping
       THEN /\ SpawnFailed(workers_)
            /\ stop_seen' = Seen("initialize")
            /\ UNCHANGED <<workers_, wstate>>
       ELSE /\ workers_' = Append(workers_, Len(workers_))
            /\ wstate' = [wstate EXCEPT ![Len(workers_)] = "idle"]
            /\ pc' = "d_collect"
            /\ UNCHANGED <<ret, max_workers_, stop_seen>>
    /\ UNCHANGED <<storeVars, dbVars, walkVars, batch_size_, stopping, current_phase_, batch_,
                   collector_, harvestable_workers_, harvestable_worker, workers_in_flight_, wbatch, wstop,
                   wexception, dispatch_from, stop_index, events, fault_seen, harvests, spawn_failed, callVars>>

\* no worker is free and the pool can grow: initialize_new_worker()
DispatchSpawn ==
    /\ pc = "d_find"
    /\ KickWaiting = {}
    /\ Len(workers_) # max_workers_
    /\ IF stopping
       THEN /\ SpawnFailed(workers_)
            /\ stop_seen' = Seen("initialize")
            /\ UNCHANGED <<workers_, wstate>>
       ELSE /\ workers_' = Append(workers_, Len(workers_))
            /\ wstate' = [wstate EXCEPT ![Len(workers_)] = "idle"]
            /\ pc' = "d_collect"
            /\ UNCHANGED <<ret, max_workers_, stop_seen>>
    /\ UNCHANGED <<storeVars, dbVars, walkVars, batch_size_, stopping, current_phase_, batch_,
                   collector_, harvestable_workers_, harvestable_worker, workers_in_flight_, wbatch, wstop,
                   wexception, dispatch_from, stop_index, events, fault_seen, harvests, spawn_failed, callVars>>

\* the same, an exception being thrown by the constructor of the worker (nothing is
\* added to the pool) or by start() (the worker stays in the pool, not started)
DispatchSpawnFails ==
    /\ pc = "d_find"
    /\ KickWaiting = {}
    /\ Len(workers_) # max_workers_
    /\ ~stopping
    /\ events > 0
    /\ events' = events - 1
    /\ \E added \in BOOLEAN :
          LET pool == IF added THEN Append(workers_, Len(workers_)) ELSE workers_
          IN  /\ workers_' = pool
              /\ spawn_failed' = IF pool = <<>> THEN dispatch_from ELSE spawn_failed
              /\ wstate' = IF added THEN [wstate EXCEPT ![Len(workers_)] = "unstarted"]
                           ELSE wstate
              /\ SpawnFailed(pool)
    /\ UNCHANGED <<storeVars, dbVars, walkVars, batch_size_, stopping, current_phase_, batch_,
                   collector_, harvestable_workers_, harvestable_worker, workers_in_flight_, wbatch, wstop,
                   wexception, dispatch_from, stop_index, stop_seen, fault_seen, harvests, callVars>>

\* no worker is free and the pool is full: worker_completed_cv_.wait_for(5 s), then retry
DispatchWait ==
    /\ pc = "d_find"
    /\ KickWaiting = {}
    /\ Len(workers_) = max_workers_
    /\ pc' = "d_collect"
    /\ UNCHANGED <<storeVars, dbVars, cfgVars, walkVars, poolVars, ret, stopping,
                   current_phase_, batch_, collector_, dispatch_from, stop_index, events,
                   stop_seen, fault_seen, harvests, spawn_failed, callVars>>

\* collect_workers_results() catches an exception thrown by one of the calls of
\* collector_.collect it makes for the worker popped (lines 229 and 241): the buffer has
\* been reclaimed, the records of the calls before are in collector_, stop() is called
\* and false is returned.  In dispatch_batch the loop is left and is_stopping() is
\* returned; in phase 3 the result is not read.
CollectFails ==
    /\ pc \in {"d_harvest", "collect"}
    /\ harvestable_worker # <<>>
    /\ events > 0
    /\ events' = events - 1
    /\ \E race \in Races(harvestable_worker[1]) :
          LET got == HarvestWorker(harvestable_worker[1], race)
          IN  /\ wbatch' = got.buffers
              /\ \E call_no \in 1 .. (Len(got.records) - Len(collector_)) :
                    collector_' = SubSeq(got.records, 1, Len(collector_) + call_no - 1)
    /\ harvests' = harvests + 1
    /\ harvestable_worker' = <<>>
    /\ stopping' = TRUE
    /\ harvest_failed' = IF pc = "collect" THEN "phase3" ELSE dispatch_from
    /\ IF pc = "d_harvest"
       THEN Returned(TRUE) /\ stop_seen' = Seen("dispatch")
       ELSE pc' = "load" /\ UNCHANGED <<ret, stop_seen>>
    /\ UNCHANGED <<storeVars, dbVars, cfgVars, walkVars, current_phase_, batch_, workers_,
                   harvestable_workers_, workers_in_flight_, wstate, wstop, wexception,
                   dispatch_from, stop_index, fault_seen, spawn_failed, call,
                   unwind_to, prune_from, first_run>>

(***************************************************************************)
(* recover(): phase 3, progress and commit.                                *)
(***************************************************************************)
\* wait_workers_completion() returns when workers_in_flight_ is 0
WaitWorkersCompletion ==
    /\ pc = "wait"
    /\ workers_in_flight_ = 0
    /\ current_phase_' = 3
    /\ pc' = "collect"
    /\ UNCHANGED <<storeVars, dbVars, cfgVars, walkVars, poolVars, ret, stopping, batch_,
                   collector_, dispatch_from, stop_index, events, stop_seen, fault_seen,
                   harvests, spawn_failed, callVars>>

\* etl::Collector::load with MDBX_APPEND: the records sorted by key are appended one by
\* one; a key that is not above the last key of the table is refused (MDBX_EKEYMISMATCH)
RECURSIVE AppendSorted(_, _)
AppendSorted(table, records) ==
    IF records = {} THEN [ok |-> TRUE, table |-> table]
    ELSE LET first == CHOOSE r \in records :
                          \A o \in records : o.key = r.key \/ KeyLess(r.key, o.key)
             above == \A k \in DOMAIN table : KeyLess(k, first.key)
         IN  IF ~above THEN [ok |-> FALSE, table |-> table]
             ELSE AppendSorted([k \in DOMAIN table \cup {first.key} |->
                                   IF k = first.key THEN first.value ELSE table[k]],
                               records \ {first})

CollectorLoad(table, records) ==
    LET entries == {[key |-> records[i].key, value |-> records[i].value] : i \in 1 .. Len(records)}
    IN  IF Cardinality(entries) # Len(records) THEN [ok |-> FALSE, table |-> table]
        ELSE AppendSorted(table, entries)

LoadCollector ==
    /\ pc = "load"
    /\ IF collector_ = <<>>
       THEN /\ pc' = "write_progress"
            /\ UNCHANGED <<ret, txn_senders>>
       ELSE LET loaded == CollectorLoad(txn_senders, collector_)
            IN  /\ txn_senders' = loaded.table
                /\ IF loaded.ok THEN pc' = "write_progress" /\ UNCHANGED ret
                   ELSE Throw("kDbError")
    /\ UNCHANGED <<storeVars, db_progress, db_senders, txn_progress, committed, cfgVars,
                   walkVars, poolVars, stopping, current_phase_, batch_, collector_,
                   dispatch_from, stop_index, events, stop_seen, fault_seen, harvests, spawn_failed, callVars>>

\* db::stages::write_stage_progress(*txn_, kSendersKey, reached_block_num)
WriteProgress ==
    /\ pc = "write_progress"
    /\ txn_progress' = [txn_progress EXCEPT !["Senders"] = reached_block_num]
    /\ pc' = "commit"
    /\ UNCHANGED <<storeVars, db_progress, db_senders, txn_senders, committed, cfgVars,
                   walkVars, poolVars, ret, stopping, current_phase_, batch_, collector_,
                   dispatch_from, stop_index, events, stop_seen, fault_seen, harvests, spawn_failed, callVars>>

\* txn_.commit()
Commit ==
    /\ pc = "commit"
    /\ db_progress' = txn_progress
    /\ db_senders' = txn_senders
    /\ committed' = TRUE
    /\ pc' = "cleanup"
    /\ UNCHANGED <<storeVars, txn_progress, txn_senders, cfgVars, walkVars, poolVars, ret,
                   stopping, current_phase_, batch_, collector_, dispatch_from, stop_index,
                   events, stop_seen, fault_seen, harvests, spawn_failed, callVars>>

\* an mdbx::exception thrown by a store operation of the try block: ret = kDbError,
\* what the farm did before the operation staying done
ThrowFromStore ==
    /\ events > 0
    /\ events' = events - 1
    /\ Throw("kDbError")
    /\ UNCHANGED <<storeVars, dbVars, cfgVars, poolVars, stopping, collector_, dispatch_from,
                   stop_index, stop_seen, fault_seen, harvests, spawn_failed, callVars,
                   target_progress, body_data>>

\* read_stage_progress (lines 49-51), write_stage_progress (143), commit (144),
\* and open_cursor or load of a collector that is not empty (136-138)
StoreExceptionPlain ==
    /\ \/ pc \in {"start", "write_progress", "commit"}
       \/ pc = "load" /\ collector_ # <<>>
    /\ ThrowFromStore
    /\ UNCHANGED <<current_phase_, headers_, headers_it_1_, header_index_offset_,
                   expected_block_number, reached_block_num, batch_>>

\* a cursor operation of fill_canonical_headers (open_cursor 415, find 419, to_next
\* 431), made before the next read of the stop flag: the function catches and returns
\* kDbError, headers_ holding what was read before the operation
StoreExceptionHeaders ==
    /\ pc = "phase1" \/ (pc = "h_check" /\ ~stopping)
    /\ LET r == fill_canonical_headers(canonical, expected_block_number, target_progress, headers_)
       IN  \E left \in r.thrown : headers_' = left
    /\ ThrowFromStore
    /\ UNCHANGED <<current_phase_, headers_it_1_, header_index_offset_,
                   expected_block_number, reached_block_num, batch_>>

\* open_cursor or find on the bodies table (lines 75-82), fill_canonical_headers
\* having returned Success
StoreExceptionFind ==
    /\ pc = "h_ret"
    /\ ~stopping
    /\ headers_it_1_' = 1
    /\ header_index_offset_' = expected_block_number
    /\ current_phase_' = 2
    /\ reached_block_num' = 0
    /\ ThrowFromStore
    /\ UNCHANGED <<headers_, expected_block_number, batch_>>

\* to_next after a row that is skipped (lines 89 and 102)
StoreExceptionSkip ==
    /\ pc = "walk"
    /\ body_data.done
    /\ \/ KeyNum(body_data.key) < expected_block_number
       \/ /\ KeyNum(body_data.key) = expected_block_number
          /\ ~SameHash(KeyHash(body_data.key), headers_[headers_it_1_].block_hash)
    /\ reached_block_num' = KeyNum(body_data.key)
    /\ ThrowFromStore
    /\ UNCHANGED <<current_phase_, headers_, headers_it_1_, header_index_offset_,
                   expected_block_number, batch_>>

\* read_transactions of the expected row (line 116), txn_count being set
StoreExceptionRead ==
    /\ pc = "walk"
    /\ body_data.done
    /\ KeyNum(body_data.key) = expected_block_number
    /\ SameHash(KeyHash(body_data.key), headers_[headers_it_1_].block_hash)
    /\ ~(KeyNum(body_data.key) % kStopCheckInterval = 0 /\ stopping)
    /\ Len(bodies[body_data.key]) > 0
    /\ reached_block_num' = KeyNum(body_data.key)
    /\ headers_' = [headers_ EXCEPT ![headers_it_1_].txn_count = Len(bodies[body_data.key])]
    /\ ThrowFromStore
    /\ UNCHANGED <<current_phase_, headers_it_1_, header_index_offset_,
                   expected_block_number, batch_>>

\* to_next after an empty block (line 126): the header iterator and the expected
\* number advanced
StoreExceptionNext ==
    /\ pc = "walk"
    /\ body_data.done
    /\ KeyNum(body_data.key) = expected_block_number
    /\ SameHash(KeyHash(body_data.key), headers_[headers_it_1_].block_hash)
    /\ ~(KeyNum(body_data.key) % kStopCheckInterval = 0 /\ stopping)
    /\ Len(bodies[body_data.key]) = 0
    /\ headers_it_1_ + 1 <= Len(headers_)
    /\ reached_block_num' = KeyNum(body_data.key)
    /\ headers_it_1_' = headers_it_1_ + 1
    /\ expected_block_number' = expected_block_number + 1
    /\ ThrowFromStore
    /\ UNCHANGED <<current_phase_, headers_, header_index_offset_, batch_>>

\* to_next after transform_and_fill_batch returned Success (line 126)
StoreExceptionAfterTransform ==
    /\ pc = "t_ret"
    /\ ~stopping
    /\ headers_it_1_ + 1 <= Len(headers_)
    /\ headers_it_1_' = headers_it_1_ + 1
    /\ expected_block_number' = expected_block_number + 1
    /\ ThrowFromStore
    /\ UNCHANGED <<current_phase_, headers_, header_index_offset_, reached_block_num, batch_>>

StoreException ==
    \/ StoreExceptionPlain
    \/ StoreExceptionHeaders
    \/ StoreExceptionFind
    \/ StoreExceptionSkip
    \/ StoreExceptionRead
    \/ StoreExceptionNext
    \/ StoreExceptionAfterTransform

(***************************************************************************)
(* recover(): stop_all_workers(wait = true), then the clears.              *)
(***************************************************************************)
\* worker->stop(wait): the request
StopWorker ==
    /\ pc = "cleanup"
    /\ stop_index <= Len(workers_)
    /\ wstop' = [wstop EXCEPT ![workers_[stop_index]] = TRUE]
    /\ pc' = "join"
    /\ UNCHANGED <<storeVars, dbVars, cfgVars, walkVars, ret, stopping, current_phase_, batch_,
                   collector_, workers_, harvestable_workers_, harvestable_worker, workers_in_flight_, wstate,
                   wbatch, wexception, dispatch_from, stop_index, events, stop_seen,
                   fault_seen, harvests, spawn_failed, callVars>>

\* variant: stop(wait = false), the thread is not waited for
JoinWorker_NoWait ==
    /\ pc = "join"
    /\ stop_index' = stop_index + 1
    /\ pc' = "cleanup"
    /\ UNCHANGED <<storeVars, dbVars, cfgVars, walkVars, poolVars, ret, stopping,
                   current_phase_, batch_, collector_, dispatch_from, events, stop_seen,
                   fault_seen, harvests, spawn_failed, callVars>>

\* worker->stop(wait): the wait for the thread to end (none to wait for if never started)
JoinWorker ==
    /\ pc = "join"
    /\ wstate[workers_[stop_index]] \in {"stopped", "unstarted"}
    /\ stop_index' = stop_index + 1
    /\ pc' = "cleanup"
    /\ UNCHANGED <<storeVars, dbVars, cfgVars, walkVars, poolVars, ret, stopping,
                   current_phase_, batch_, collector_, dispatch_from, events, stop_seen,
                   fault_seen, harvests, spawn_failed, callVars>>

\* headers_.clear(); workers_connections_.clear(); workers_.clear(); return ret
ClearAndReturn ==
    /\ pc = "cleanup"
    /\ stop_index > Len(workers_)
    /\ headers_' = <<>>
    /\ workers_' = <<>>
    /\ pc' = "done"
    /\ UNCHANGED <<storeVars, dbVars, cfgVars, ret, stopping, current_phase_, headers_it_1_,
                   header_index_offset_, target_progress, expected_block_number,
                   reached_block_num, body_data, batch_, collector_, harvestable_workers_, harvestable_worker,
                   workers_in_flight_, wstate, wbatch, wstop, wexception, dispatch_from,
                   stop_index, events, stop_seen, fault_seen, harvests, spawn_failed, callVars>>

(***************************************************************************)
(* RecoveryWorker threads and the signal handlers of the farm they call.   *)
(***************************************************************************)
Decremented(n) == IF n > 0 THEN n - 1 ELSE n

\* the worker thread reaches wait_for_kick()
WorkerWaitsForKick(w) ==
    /\ wstate[w] = "idle"
    /\ ~wstop[w]
    /\ wstate' = [wstate EXCEPT ![w] = "kick_waiting"]
    /\ UNCHANGED <<storeVars, dbVars, cfgVars, walkVars, pc, ret, stopping, current_phase_,
                   batch_, collector_, workers_, harvestable_workers_, harvestable_worker, workers_in_flight_,
                   wbatch, wstop, wexception, dispatch_from, stop_index, events, stop_seen,
                   fault_seen, harvests, spawn_failed, callVars>>

\* the batch is done: signal_task_completed runs task_completed_handler
WorkerCompletes(w) ==
    /\ wstate[w] = "working"
    /\ wbatch' = [wbatch EXCEPT ![w] = Recovered(wbatch[w], Len(wbatch[w]))]
    /\ harvestable_workers_' = Append(harvestable_workers_, w)
    /\ workers_in_flight_' = Decremented(workers_in_flight_)
    /\ wstate' = [wstate EXCEPT ![w] = "idle"]
    /\ UNCHANGED <<harvestable_worker, storeVars, dbVars, cfgVars, walkVars, pc, ret, stopping, current_phase_,
                   batch_, collector_, workers_, wstop, wexception, dispatch_from, stop_index,
                   events, stop_seen, fault_seen, harvests, spawn_failed, callVars>>

\* the worker thread ends with an exception: signal_worker_stopped runs
\* worker_completed_handler, which calls stop()
WorkerFaults(w) ==
    /\ wstate[w] = "working"
    /\ events > 0
    /\ events' = events - 1
    /\ wstate' = [wstate EXCEPT ![w] = "stopped"]
    /\ wexception' = [wexception EXCEPT ![w] = TRUE]
    /\ workers_in_flight_' = Decremented(workers_in_flight_)
    /\ stopping' = TRUE
    /\ fault_seen' = (fault_seen \/ ~committed)
    /\ UNCHANGED <<storeVars, dbVars, cfgVars, walkVars, pc, ret, current_phase_, batch_,
                   collector_, workers_, harvestable_workers_, harvestable_worker, wbatch, wstop, dispatch_from,
                   stop_index, stop_seen, harvests, spawn_failed, callVars>>

\* the worker thread ends on a stop request: worker_completed_handler, no exception
WorkerStops(w) ==
    /\ wstate[w] \in {"idle", "kick_waiting"}
    /\ wstop[w]
    /\ wstate' = [wstate EXCEPT ![w] = "stopped"]
    /\ workers_in_flight_' = Decremented(workers_in_flight_)
    /\ UNCHANGED <<storeVars, dbVars, cfgVars, walkVars, pc, ret, stopping, current_phase_,
                   batch_, collector_, workers_, harvestable_workers_, harvestable_worker, wbatch, wstop,
                   wexception, dispatch_from, stop_index, events, stop_seen, fault_seen,
                   harvests, spawn_failed, callVars>>

\* the process is signalled: is_stopping() returns true from now on
SignalStop ==
    /\ pc \notin {"done", "aborted"}
    /\ ~stopping
    /\ events > 0
    /\ events' = events - 1
    /\ stopping' = TRUE
    /\ UNCHANGED <<storeVars, dbVars, cfgVars, walkVars, poolVars, pc, ret, current_phase_,
                   batch_, collector_, dispatch_from, stop_index, stop_seen, fault_seen,
                   harvests, spawn_failed, callVars>>

(***************************************************************************)
(* Later calls of the stage.  recover() and unwind() are served on the     *)
(* store as the previous call left it, by a farm just constructed.         *)
(***************************************************************************)
NewFarm ==
    /\ ret' = "kSuccess"
    /\ max_workers_' = hardware_concurrency
    /\ stopping' = FALSE
    /\ current_phase_' = 0
    /\ headers_' = <<>>
    /\ headers_it_1_' = 1
    /\ header_index_offset_' = 0
    /\ target_progress' = 0
    /\ expected_block_number' = 0
    /\ reached_block_num' = 0
    /\ body_data' = [done |-> FALSE, key |-> NoKey]
    /\ batch_' = <<>>
    /\ collector_' = <<>>
    /\ workers_' = <<>>
    /\ harvestable_workers_' = <<>>
    /\ harvestable_worker' = <<>>
    /\ workers_in_flight_' = 0
    /\ dispatch_from' = "none"
    /\ stop_index' = 1
    /\ wstate' = [w \in WorkerIds |-> "none"]
    /\ wbatch' = [w \in WorkerIds |-> <<>>]
    /\ wstop' = [w \in WorkerIds |-> FALSE]
    /\ wexception' = [w \in WorkerIds |-> FALSE]
    /\ events' = 0
    /\ stop_seen' = "nowhere"
    /\ fault_seen' = FALSE
    /\ harvests' = 0
    /\ spawn_failed' = "none"
    /\ harvest_failed' = "none"

\* recover() is called again after it returned Success, the progress of the block
\* hashes and block bodies stages being what it was
RecoverAgain ==
    /\ pc = "done"
    /\ call = "first"
    /\ ret = "kSuccess"
    /\ call' = "again"
    /\ pc' = "start"
    /\ NewFarm
    /\ pre_progress' = db_progress
    /\ pre_senders' = db_senders
    /\ txn_progress' = db_progress
    /\ txn_senders' = db_senders
    /\ committed' = FALSE
    /\ first_run' = [first_run EXCEPT !.ret = ret]
    /\ UNCHANGED <<canonical, bodies, chain_config, hardware_concurrency, db_progress, db_senders, batch_size_, unwind_to,
                   prune_from>>

\* variant: the scan starts at block_key(to)
RECURSIVE UnwindScan_FromTo(_, _)
UnwindScan_FromTo(table, to) ==
    LET after == {k \in DOMAIN table : KeyNum(k) >= to}
    IN  IF after = {} THEN table
        ELSE UnwindScan_FromTo(Restrict(table, DOMAIN table \ {MinKey(after)}), to)

\* the scan of unwind: from the first key at or above block_key(to + 1), every row is
\* deleted in turn
RECURSIVE UnwindScan(_, _)
UnwindScan(table, to) ==
    LET after == {k \in DOMAIN table : KeyNum(k) >= to + 1}
    IN  IF after = {} THEN table
        ELSE UnwindScan(Restrict(table, DOMAIN table \ {MinKey(after)}), to)

\* unwind: with unwind_to at or above the stage progress nothing is done; else the rows
\* above unwind_to are deleted and the stage progress is set to unwind_to
unwind_senders(senders, progress, to) ==
    IF to >= progress["Senders"]
    THEN [senders |-> senders, progress |-> progress]
    ELSE [senders |-> UnwindScan(senders, to),
          progress |-> [progress EXCEPT !["Senders"] = to]]

\* the block numbers the store knows of, and the progress before the first call
KnownBlocks ==
    {db_progress[k] : k \in Stages} \cup {KeyNum(k) : k \in DOMAIN db_senders}
        \cup {first_run.progress["Senders"]}

UnwindTargets == MinNum(KnownBlocks) .. MaxNum(KnownBlocks)

\* unwind(to) is called after recover() returned, and once more with the same argument
Unwind ==
    /\ \/ /\ pc = "done" /\ call = "first"
          /\ call' = "unwind"
          /\ unwind_to' \in UnwindTargets
       \/ /\ pc = "unwound" /\ call = "unwind"
          /\ call' = "unwind_again"
          /\ unwind_to' = unwind_to
    /\ LET unwound == unwind_senders(db_senders, db_progress, unwind_to')
       IN  /\ db_senders' = unwound.senders
           /\ txn_senders' = unwound.senders
           /\ db_progress' = unwound.progress
           /\ txn_progress' = unwound.progress
    /\ pc' = "unwound"
    /\ NewFarm
    /\ pre_progress' = db_progress
    /\ pre_senders' = db_senders
    /\ committed' = TRUE
    /\ first_run' = IF call = "first" THEN [first_run EXCEPT !.ret = ret] ELSE first_run
    /\ UNCHANGED <<canonical, bodies, chain_config, hardware_concurrency, batch_size_, prune_from>>

\* variant: the row of block `from` is deleted too
RECURSIVE PruneScan_UpTo(_, _)
PruneScan_UpTo(table, from) ==
    LET before == {k \in DOMAIN table : KeyNum(k) <= from}
    IN  IF before = {} THEN table
        ELSE PruneScan_UpTo(Restrict(table, DOMAIN table \ {MinKey(before)}), from)

\* the scan of prune: every row below block_key(from) is deleted in turn
RECURSIVE PruneScan(_, _)
PruneScan(table, from) ==
    LET before == {k \in DOMAIN table : KeyNum(k) < from}
    IN  IF before = {} THEN table
        ELSE PruneScan(Restrict(table, DOMAIN table \ {MinKey(before)}), from)

prune_senders(senders, progress, from) ==
    [senders |-> PruneScan(senders, from), progress |-> progress]

PruneTargets == MinNum(KnownBlocks) .. (MaxNum(KnownBlocks) + 1)

\* prune(from) is called after recover() returned, and once more with the same argument
Prune ==
    /\ \/ /\ pc = "done" /\ call = "first"
          /\ call' = "prune"
          /\ pc' = "pruned"
          /\ prune_from' \in PruneTargets
       \/ /\ pc = "pruned" /\ call = "prune"
          /\ call' = "prune_again"
          /\ pc' = "pruned"
          /\ prune_from' = prune_from
    /\ LET pruned == prune_senders(db_senders, db_progress, prune_from')
       IN  /\ db_senders' = pruned.senders
           /\ txn_senders' = pruned.senders
           /\ db_progress' = pruned.progress
           /\ txn_progress' = pruned.progress
    /\ NewFarm
    /\ pre_progress' = db_progress
    /\ pre_senders' = db_senders
    /\ committed' = TRUE
    /\ first_run' = IF call = "first" THEN [first_run EXCEPT !.ret = ret] ELSE first_run
    /\ UNCHANGED <<canonical, bodies, chain_config, hardware_concurrency, batch_size_, unwind_to>>

Next ==
    \/ Start
    \/ FillHeaders
    \/ FillHeadersCheck
    \/ FillHeadersReturn
    \/ WalkEnd
    \/ WalkSkip
    \/ WalkSurpassed
    \/ WalkBlock
    \/ TransformAndFillBatch
    \/ TransformReturn
    \/ PostWalk
    \/ DispatchCollect
    \/ CollectPop
    \/ CollectWorker
    \/ CollectReturns
    \/ DispatchToWorker
    \/ DispatchCount
    \/ DispatchSpawn
    \/ DispatchSpawnFails
    \/ DispatchWait
    \/ CollectFails
    \/ WaitWorkersCompletion
    \/ LoadCollector
    \/ WriteProgress
    \/ Commit
    \/ StoreException
    \/ StopWorker
    \/ JoinWorker
    \/ ClearAndReturn
    \/ SignalStop
    \/ RecoverAgain
    \/ Unwind
    \/ Prune
    \/ \E w \in WorkerIds : WorkerWaitsForKick(w)
    \/ \E w \in WorkerIds : WorkerCompletes(w)
    \/ \E w \in WorkerIds : WorkerFaults(w)
    \/ \E w \in WorkerIds : WorkerStops(w)

Spec == Init /\ [][Next]_vars

\* the threads are scheduled: the main thread goes on, a worker that holds a batch
\* finishes it and signals task_completed, a worker that is idle waits for the next kick
Fairness ==
    /\ WF_vars(Next)
    /\ \A w \in WorkerIds : WF_vars(WorkerCompletes(w)) /\ WF_vars(WorkerWaitsForKick(w))

LiveSpec == Spec /\ Fairness

(***************************************************************************)
(* Properties.                                                             *)
(***************************************************************************)
Returned_ == pc = "done"

RangeFrom == pre_progress["Senders"] + 1

\* recover() has something to do: previous_progress < target_progress
NonEmptyRange == pre_progress["Senders"] < Min(pre_progress["BlockHashes"], pre_progress["BlockBodies"])

RangeTo == Min(pre_progress["BlockHashes"], pre_progress["BlockBodies"])

\* the addresses of the transactions of a body, in transaction order
SendersOf(transactions) ==
    [i \in 1 .. Len(transactions) |-> RecoveredAddress(keccak256(transactions[i].payload))]

\* C1: whenever is_stopping() returned true to the farm in the body walk, in
\* transform_and_fill_batch, inside dispatch_batch (initialize_new_worker included) or
\* after the walk, recover() returns Aborted, does not commit and leaves
\* stage_progress[senders] at its pre-run value.
C1_CancellationNeverCommits ==
    stop_seen \in {"walk", "transform", "dispatch", "initialize", "post_walk"}
        => /\ ~committed
           /\ db_progress = pre_progress
           /\ Returned_ => ret = "kAborted"

\* C2: when recover() returns Success on a non-empty range, the committed
\* stage_progress[senders] is to = min(block_hashes_progress, block_bodies_progress).
C2_SuccessProgressIsTarget ==
    (Returned_ /\ ret = "kSuccess" /\ NonEmptyRange)
        => (committed /\ db_progress["Senders"] = RangeTo)

\* C3: after recover() returned Success (in a run with no signal, worker fault or store
\* error), every canonical block of [from, to] whose body has n > 0 transactions has its
\* record in the senders table, holding the n addresses of its transactions in order:
\* no package is lost or duplicated, whatever the interleaving of the workers.
C3_NoPackageLost ==
    (Returned_ /\ ret = "kSuccess" /\ NonEmptyRange /\ events = MaxEvents /\ ~stopping)
        => \A b \in RangeFrom .. RangeTo :
              (b \in DOMAIN canonical /\ block_key(b, canonical[b]) \in DOMAIN bodies
               /\ bodies[block_key(b, canonical[b])] # <<>>)
                  => /\ block_key(b, canonical[b]) \in DOMAIN db_senders
                     /\ db_senders[block_key(b, canonical[b])]
                            = SendersOf(bodies[block_key(b, canonical[b])])

\* C4: if a worker stopped with its error flag set before the commit, recover() does
\* not commit and does not return Success.
C4_WorkerFaultFailsStage ==
    fault_seen => (~committed /\ (Returned_ => ret # "kSuccess"))

\* C5: a run that does not return Success commits nothing: the committed senders table
\* and stage progress are the pre-run ones; the commit is executed only on the path
\* that returns Success.
C5_FailedRunChangesNothing ==
    /\ ret # "kSuccess" => (~committed /\ db_senders = pre_senders /\ db_progress = pre_progress)
    /\ ~committed => (db_senders = pre_senders /\ db_progress = pre_progress)

\* C5 witness: a run that failed after it had loaded senders into the transaction.
C5_Witness ==
    Returned_ /\ ret = "kDbError" /\ txn_senders # pre_senders /\ db_senders = pre_senders

\* the cursor of the walk is on a row of [from, to] whose hash is not the canonical one
OnNonCanonicalRow ==
    /\ pc \in {"walk", "t_enter"}
    /\ body_data.done
    /\ KeyNum(body_data.key) \in header_index_offset_ .. (header_index_offset_ + Len(headers_) - 1)
    /\ KeyHash(body_data.key)
           # headers_[KeyNum(body_data.key) - header_index_offset_ + 1].block_hash

\* C6: a body row whose hash differs from the canonical hash of its height produces
\* no package and does not advance the expected block number.
C6_OnlyCanonicalContributes ==
    [][OnNonCanonicalRow =>
          /\ batch_' = batch_
          /\ expected_block_number' = expected_block_number
          /\ headers_it_1_' = headers_it_1_]_vars

\* C7: if some block of [from, to] has no body row under its canonical hash, recover()
\* does not return Success.
C7_MissingBlockReported ==
    (Returned_ /\ NonEmptyRange
     /\ \E b \in RangeFrom .. RangeTo :
           b \in DOMAIN canonical /\ block_key(b, canonical[b]) \notin DOMAIN bodies)
        => ret # "kSuccess"

\* C8: the records handed to the collector have pairwise distinct keys, each the
\* block_key of a block of [from, to] with its canonical hash.
C8_CollectedKeysDistinct ==
    /\ \A i, j \in 1 .. Len(collector_) : i # j => collector_[i].key # collector_[j].key
    /\ \A i \in 1 .. Len(collector_) :
          LET b == KeyNum(collector_[i].key)
          IN  /\ RangeFrom <= b /\ b <= RangeTo
              /\ b \in DOMAIN canonical
              /\ collector_[i].key = block_key(b, canonical[b])

\* C8 witness: two workers' batches were collected, the later block first.
C8_Witness ==
    /\ Len(collector_) >= 2
    /\ KeyNum(collector_[1].key) > KeyNum(collector_[2].key)
    /\ pc = "load"

\* C9 as stated: every collect call for a block number comes before every collect call
\* for a greater block number.
C9_CollectOrderedByBlock ==
    \A i, j \in 1 .. Len(collector_) :
        i < j => KeyNum(collector_[i].key) <= KeyNum(collector_[j].key)

\* C9 amended: the collect calls made for one worker batch are in strictly ascending
\* block order, and so are all collect calls of a run in which one worker only was
\* created.
C9_CollectOrderedWithinBatch ==
    \A i, j \in 1 .. Len(collector_) :
        (i < j /\ (collector_[i].harvest = collector_[j].harvest
                   \/ \A w \in WorkerIds : w # 0 => wstate[w] = "none"))
            => KeyNum(collector_[i].key) < KeyNum(collector_[j].key)

\* C9 witness: one worker batch gave records for two blocks.
C9_Witness ==
    \E i, j \in 1 .. Len(collector_) :
        i < j /\ collector_[i].harvest = collector_[j].harvest

\* C10: when recover() has returned, stop() has been called on every worker that was
\* created and none of them is running: the pool is cleared after that only.
C10_AllWorkersStopped ==
    Returned_ =>
        /\ workers_ = <<>>
        /\ \A w \in WorkerIds :
              wstate[w] # "none" => (wstop[w] /\ wstate[w] \in {"stopped", "unstarted"})

\* C10 witness: recover() returned a failure after two workers had been given work.
C10_Witness ==
    /\ Returned_
    /\ ret = "kAborted"
    /\ \A w \in WorkerIds : wstate[w] = "stopped" /\ wstop[w]

\* C11: when dispatch_batch found the pool empty and could not create a worker, in the
\* walk or in the final dispatch, recover() does not commit and does not return Success.
C11_SpawnFailureFailsStage ==
    spawn_failed # "none" => (~committed /\ (Returned_ => ret # "kSuccess"))

\* the call being served is a recover()
IsRecover == call \in {"first", "again"}

EmptyRange == pre_progress["Senders"] = RangeTo

InvalidRange == pre_progress["Senders"] > RangeTo

NoWorkerCreated == workers_ = <<>> /\ \A w \in WorkerIds : wstate[w] = "none"

\* C12: when previous_progress = min(block_hashes_progress, block_bodies_progress),
\* recover() returns Success at once (no read of the stage progress failing): it writes
\* neither stage_progress[senders] nor the senders table, does not commit and creates
\* no worker.
C12_EmptyRangeIsNoOp ==
    (IsRecover /\ EmptyRange) =>
        /\ ret # "kDbError" => (pc \in {"start", "done"} /\ ret = "kSuccess")
        /\ ~committed
        /\ txn_progress = pre_progress /\ txn_senders = pre_senders
        /\ db_progress = pre_progress /\ db_senders = pre_senders
        /\ NoWorkerCreated

\* C12 witness: recover() returned on an empty range, the senders table holding rows.
C12_Witness == IsRecover /\ EmptyRange /\ Returned_ /\ pre_senders # <<>>

\* C13: when previous_progress > min(block_hashes_progress, block_bodies_progress),
\* recover() returns InvalidProgress (no read of the stage progress failing): no header
\* is read, the bodies cursor is never positioned, no worker is created and nothing is
\* written or committed.
C13_InvalidProgressReported ==
    (IsRecover /\ InvalidRange) =>
        /\ pc \in {"start", "cleanup", "done"}
        /\ (pc # "start" /\ ret # "kDbError") => ret = "kInvalidProgress"
        /\ headers_ = <<>> /\ ~body_data.done
        /\ ~committed
        /\ txn_progress = pre_progress /\ txn_senders = pre_senders
        /\ NoWorkerCreated

\* C13 witness: recover() returned InvalidProgress.
C13_Witness == IsRecover /\ InvalidRange /\ Returned_ /\ ret = "kInvalidProgress"

\* C14: a recover() called again after a Success, with the block hashes and block bodies
\* progress unchanged, returns Success and leaves the senders table and the stage
\* progress as the first call left them.
C14_SecondRunIsNoOp ==
    (call = "again" /\ Returned_) =>
        (ret = "kSuccess" /\ db_senders = pre_senders /\ db_progress = pre_progress)

\* the rows of unwind's postcondition: those at or below unwind_to, unchanged
UnwindKept ==
    /\ DOMAIN db_senders = {k \in DOMAIN pre_senders : KeyNum(k) <= unwind_to}
    /\ \A k \in DOMAIN db_senders : db_senders[k] = pre_senders[k]
    /\ db_progress = [pre_progress EXCEPT !["Senders"] = unwind_to]

\* C20: unwind(unwind_to) with unwind_to below the stage progress removes exactly the
\* rows above unwind_to, leaves the others identical and sets stage_progress[senders] to
\* unwind_to; with unwind_to >= the current progress it changes neither the table nor
\* the progress, and so a second unwind(unwind_to) changes nothing.
C20_UnwindPostcondition ==
    pc = "unwound" =>
        /\ unwind_to < pre_progress["Senders"] => UnwindKept
        /\ unwind_to >= pre_progress["Senders"]
               => (db_senders = pre_senders /\ db_progress = pre_progress)
        /\ call = "unwind_again" => (db_senders = pre_senders /\ db_progress = pre_progress)

\* C20 witness: a second unwind(unwind_to) ran after the first had set the progress to
\* unwind_to, deleted a row and kept another.
C20_Witness ==
    /\ pc = "unwound" /\ call = "unwind_again"
    /\ db_progress["Senders"] = unwind_to
    /\ db_senders # <<>>
    /\ \E k \in DOMAIN first_run.senders : k \notin DOMAIN db_senders

\* the blocks of [from, to] whose canonical body has no transaction
EmptyBlocks ==
    {b \in RangeFrom .. RangeTo :
        /\ b \in DOMAIN canonical
        /\ block_key(b, canonical[b]) \in DOMAIN bodies
        /\ bodies[block_key(b, canonical[b])] = <<>>}

\* C18: a canonical block with no transaction gives no package, no collector record and
\* no senders row; a Success whose last block is empty sets stage_progress[senders] to
\* that block; a range of empty blocks only returns Success (no signal, fault or store
\* error occurring) with the senders table unchanged.
C18_EmptyBlocksAdvanceProgress ==
    IsRecover =>
        /\ \A b \in EmptyBlocks :
              /\ \A i \in 1 .. Len(batch_) : batch_[i].block_num # b
              /\ \A w \in WorkerIds : \A i \in 1 .. Len(wbatch[w]) : wbatch[w][i].block_num # b
              /\ \A i \in 1 .. Len(collector_) : KeyNum(collector_[i].key) # b
              /\ \A k \in DOMAIN txn_senders \ DOMAIN pre_senders : KeyNum(k) # b
        /\ (Returned_ /\ ret = "kSuccess" /\ NonEmptyRange /\ RangeTo \in EmptyBlocks)
              => db_progress["Senders"] = RangeTo
        /\ (Returned_ /\ NonEmptyRange /\ EmptyBlocks = RangeFrom .. RangeTo
            /\ ~stopping /\ spawn_failed = "none" /\ ret # "kDbError")
              => (ret = "kSuccess" /\ db_senders = pre_senders)

\* a canonical block of [from, to] before Berlin holds an EIP-2930 transaction
HasEip2930BeforeBerlin ==
    \E b \in RangeFrom .. RangeTo :
        /\ b \in DOMAIN canonical
        /\ block_key(b, canonical[b]) \in DOMAIN bodies
        /\ revision(chain_config, b) < EVMC_BERLIN
        /\ \E i \in 1 .. Len(bodies[block_key(b, canonical[b])]) :
               bodies[block_key(b, canonical[b])][i].type = "kEip2930"

\* C16: if a canonical block of [from, to] before Berlin holds an EIP-2930 transaction,
\* recover() never commits and leaves the senders table and the stage progress as they
\* were, whatever was dispatched before; it returns InvalidTransaction, unless a signal,
\* a worker fault, a store error or a block found missing ended the run first.
C16_ForkRuleViolationFailsRun ==
    (IsRecover /\ NonEmptyRange /\ HasEip2930BeforeBerlin) =>
        /\ ~committed /\ db_senders = pre_senders /\ db_progress = pre_progress
        /\ Returned_ => ret # "kSuccess"
        /\ (Returned_ /\ ~stopping /\ spawn_failed = "none"
            /\ ret \notin {"kDbError", "kBadChainSequence"})
              => ret = "kInvalidTransaction"

\* a step of fill_canonical_headers, or of its return into recover()
PhaseOneStep == FillHeaders \/ FillHeadersCheck \/ FillHeadersReturn

\* C19: fill_canonical_headers(from, to) returns BadChainSequence when the canonical
\* hashes table has no entry at from, or ends before to (a stop request read at a
\* multiple of kStopCheckInterval ends the walk first, with Aborted); when it returns
\* Success, headers_ has to - from + 1 entries, entry i holding the canonical hash of
\* block from + i and txn_count 0.
C19_PhaseOneResult ==
    [][PhaseOneStep =>
          LET from == expected_block_number
              to == target_progress
              last == MaxNum(DOMAIN canonical)
          IN  /\ from \notin DOMAIN canonical => ret' = "kBadChainSequence"
              /\ (/\ last < to
                  /\ \A n \in from .. last : n \in DOMAIN canonical)
                    => /\ pc' \in {"h_check", "cleanup"}
                       /\ pc' = "cleanup" =>
                             ret' = IF pc = "h_check" /\ stopping THEN "kAborted"
                                    ELSE "kBadChainSequence"
              /\ pc' \in {"h_ret", "walk"} =>
                    /\ Len(headers_') = to - from + 1
                    /\ \A i \in 0 .. (to - from) :
                          /\ from + i \in DOMAIN canonical
                          /\ headers_'[i + 1] = HeaderEntry(0, canonical[from + i])]_vars

\* C19 witness: phase 1 succeeded over a range of several blocks.
C19_Witness ==
    /\ pc = "walk" /\ reached_block_num = 0 /\ headers_it_1_ = 1
    /\ Len(headers_) >= 2
    /\ \A i \in 1 .. Len(headers_) : headers_[i].txn_count = 0

\* revision `fork` or a later one has an activation block at or below block_number
ForkActive(config, fork, block_number) ==
    \E i \in fork .. EVMC_MAX_REVISION :
        \E b \in config.evmc_fork_blocks[i] : b <= block_number

\* the transaction passes every check of transform_and_fill_batch but the chain-id one
PassesTypeAndSignature(config, block_number, tx) ==
    /\ tx.type = "kEip2930" => ForkActive(config, EVMC_BERLIN, block_number)
    /\ tx.type = "kEip1559" => ForkActive(config, EVMC_LONDON, block_number)
    /\ \/ tx.sig = "ok"
       \/ tx.sig = "high_s" /\ ~ForkActive(config, EVMC_HOMESTEAD, block_number)

ChainIdRejected(config, block_number, tx) ==
    /\ tx.chain_id # {}
    /\ \/ ~ForkActive(config, EVMC_SPURIOUS_DRAGON, block_number)
       \/ tx.chain_id # {config.chain_id}

\* the block that transform_and_fill_batch is called for, and its transactions
WalkNum == KeyNum(body_data.key)

WalkTxs == bodies[body_data.key]

\* C15: with London activating at block L, a block L - 1 holding an EIP-1559
\* transaction makes the walk fail with InvalidTransaction; at block L an EIP-1559
\* transaction that is valid otherwise is accepted and its package is pushed at the
\* back of batch_.
C15_LondonBoundary ==
    [][(TransformAndFillBatch /\ ~stopping) =>
          \A L \in chain_config.evmc_fork_blocks[EVMC_LONDON] :
              \A i \in 1 .. Len(WalkTxs) :
                  WalkTxs[i].type = "kEip1559" =>
                      /\ WalkNum = L - 1 =>
                            /\ ret' = "kInvalidTransaction" /\ pc' = "cleanup"
                            /\ \A j \in 1 .. Len(batch_') :
                                  batch_'[j].block_num = WalkNum =>
                                      batch_'[j].tx_hash # keccak256(WalkTxs[i].payload)
                      /\ (/\ WalkNum = L
                          /\ \A j \in 1 .. Len(WalkTxs) :
                                /\ PassesTypeAndSignature(chain_config, WalkNum, WalkTxs[j])
                                /\ ~ChainIdRejected(chain_config, WalkNum, WalkTxs[j]))
                            => /\ ret' = ret /\ pc' # "cleanup"
                               /\ Len(batch_') = Len(batch_) + Len(WalkTxs)
                               /\ batch_'[Len(batch_) + i] =
                                     RecoveryPackage(WalkNum, keccak256(WalkTxs[i].payload))]_vars

\* C15 witness: the package of an EIP-1559 transaction of the London block is in batch_.
C15_Witness ==
    \E j \in 1 .. Len(batch_) :
        LET key == block_key(batch_[j].block_num, CanonHash)
        IN  /\ batch_[j].block_num \in chain_config.evmc_fork_blocks[EVMC_LONDON]
            /\ key \in DOMAIN bodies
            /\ \E i \in 1 .. Len(bodies[key]) :
                  /\ bodies[key][i].type = "kEip1559"
                  /\ batch_[j].tx_hash = keccak256(bodies[key][i].payload)

\* C17: for a block whose transactions all pass the type and signature checks,
\* transform_and_fill_batch returns InvalidTransaction exactly when one of them has a
\* chain_id and either Spurious Dragon is not active at the block or the chain_id is
\* not the configured one; a transaction without chain_id is accepted at every fork.
C17_ChainIdRule ==
    [][(/\ TransformAndFillBatch /\ ~stopping
        /\ \A i \in 1 .. Len(WalkTxs) :
              PassesTypeAndSignature(chain_config, WalkNum, WalkTxs[i]))
          => ((ret' = "kInvalidTransaction")
                <=> \E i \in 1 .. Len(WalkTxs) :
                       ChainIdRejected(chain_config, WalkNum, WalkTxs[i]))]_vars

\* C17 witness: a transaction carrying the configured chain_id was accepted at a block
\* where Spurious Dragon is active, in a configuration where it is not active from genesis.
C17_Witness ==
    /\ ~ForkActive(chain_config, EVMC_SPURIOUS_DRAGON, 0)
    /\ \E j \in 1 .. Len(batch_) :
          LET key == block_key(batch_[j].block_num, CanonHash)
          IN  /\ key \in DOMAIN bodies
              /\ ForkActive(chain_config, EVMC_SPURIOUS_DRAGON, batch_[j].block_num)
              /\ \E i \in 1 .. Len(bodies[key]) :
                    /\ bodies[key][i].chain_id = {chain_config.chain_id}
                    /\ batch_[j].tx_hash = keccak256(bodies[key][i].payload)

\* C21: a recover() that returned Success leaves every row it found as it was and adds
\* only rows of blocks in [from, to]; unwind(from - 1) after it restores the senders
\* table and the stage progress to what they were before the run.
C21_RecoverUnwindRoundTrip ==
    /\ (IsRecover /\ Returned_ /\ ret = "kSuccess") =>
          /\ \A k \in DOMAIN pre_senders :
                k \in DOMAIN db_senders /\ db_senders[k] = pre_senders[k]
          /\ \A k \in DOMAIN db_senders \ DOMAIN pre_senders :
                KeyNum(k) \in RangeFrom .. RangeTo
    /\ (/\ pc = "unwound"
        /\ first_run.ret = "kSuccess"
        /\ unwind_to = first_run.progress["Senders"])
          => (db_senders = first_run.senders /\ db_progress = first_run.progress)

\* C22: prune(P) leaves exactly the rows with block_num >= P, unchanged, and does not
\* touch the stage progress; a second prune(P) changes nothing.
C22_PrunePostcondition ==
    pc = "pruned" =>
        /\ DOMAIN db_senders = {k \in DOMAIN pre_senders : KeyNum(k) >= prune_from}
        /\ \A k \in DOMAIN db_senders : db_senders[k] = pre_senders[k]
        /\ db_progress = pre_progress
        /\ call = "prune_again" => db_senders = pre_senders

\* C22 witness: a second prune(P) ran on a table from which the first had deleted a row
\* and kept another.
C22_Witness ==
    /\ pc = "pruned" /\ call = "prune_again"
    /\ db_senders # <<>>
    /\ \E k \in DOMAIN first_run.senders : k \notin DOMAIN db_senders

\* C23: when a worker has stopped with its error flag set during recover(), the result
\* of recover() is UnexpectedError.
C23_WorkerFaultIsUnexpectedError ==
    (IsRecover /\ Returned_ /\ fault_seen) => ret = "kUnexpectedError"

\* the main thread is between set_work(batch_, kick = true) and batch_.clear()
InDispatchStep == pc = "d_inc"

\* C24: the pending batch never holds more than batch_size_ packages, and neither does
\* a batch handed to a worker.
C24_BatchBound ==
    IsRecover =>
        /\ ~InDispatchStep => Len(batch_) <= batch_size_
        /\ \A w \in WorkerIds : Len(wbatch[w]) <= batch_size_

Working == {w \in WorkerIds : wstate[w] = "working"}

\* C25: outside the dispatch step, workers_in_flight_ is the number of workers that
\* hold a batch whose completion has not been handled; it never exceeds the number of
\* workers and is 0 when no worker is working.
C25_InFlightCounterAccurate ==
    (IsRecover /\ ~InDispatchStep /\ pc \notin {"done", "aborted"}) =>
        /\ workers_in_flight_ = Cardinality(Working)
        /\ workers_in_flight_ <= Len(workers_)

\* every dispatched batch was completed and harvested
Drained ==
    /\ Working = {}
    /\ harvestable_workers_ = <<>>
    /\ batch_ = <<>>
    /\ \A w \in WorkerIds : wbatch[w] = <<>>

\* C26: collector.load and the write of stage_progress[senders] happen only when no
\* worker is working, harvestable_workers_ is empty, the pending batch is empty and no
\* worker buffer holds packages.
C26_LoadOnlyAfterDrain ==
    [][((LoadCollector /\ collector_ # <<>>) \/ WriteProgress) => Drained]_vars

\* A later call of the stage is served by a farm just constructed, whose max_workers_
\* is the constructor's value again.
FarmConstructed == RecoverAgain \/ Unwind \/ Prune

\* C27: the pool never holds more than max_workers_ workers; during a run, that is in
\* every step of one farm, max_workers_ never grows and changes only to the size of
\* the pool; a worker is added only by a dispatch_batch iteration that found no worker
\* in kKickWaiting.
C27_PoolSizing ==
    [][/\ Len(workers_) <= max_workers_
       /\ Len(workers_') <= max_workers_'
       /\ ~FarmConstructed =>
             /\ max_workers_' <= max_workers_
             /\ max_workers_' # max_workers_ => max_workers_' = Len(workers_')
       /\ Len(workers_') > Len(workers_) =>
             /\ pc = "d_find" /\ KickWaiting = {}
             /\ Len(workers_') = Len(workers_) + 1]_vars

\* C27 witness: the pool is full and max_workers_ was lowered to its size by a failed
\* spawn.
C27_Witness ==
    /\ workers_ # <<>>
    /\ Len(workers_) = max_workers_
    /\ max_workers_ < MaxWorkers
    /\ \E w \in WorkerIds : wstate[w] = "unstarted"

\* C28: when collect_workers_results fails in phase 3, recover() loads nothing, does
\* not write the progress, does not commit and returns a result that is not Success.
C28_HarvestFailureNotCommitted ==
    (IsRecover /\ harvest_failed = "phase3") =>
        /\ ~committed
        /\ txn_senders = pre_senders /\ txn_progress = pre_progress
        /\ Returned_ => ret # "kSuccess"

\* C29: set_work(batch_, kick = true) is given only to a worker whose buffer is empty
\* and whose id is not in harvestable_workers_, and no id is queued twice.
C29_NoDispatchOverResults ==
    [][/\ DispatchToWorker =>
             LET w == workers_[MinNum(KickWaiting)]
             IN  /\ wbatch[w] = <<>>
                 /\ \A i \in 1 .. Len(harvestable_workers_) : harvestable_workers_[i] # w
       /\ \A i, j \in 1 .. Len(harvestable_workers_) :
             harvestable_workers_[i] = harvestable_workers_[j] => i = j]_vars

\* C30: a recover() that commits never lowers stage_progress[senders].
C30_ProgressMonotone ==
    (IsRecover /\ committed) => db_progress["Senders"] >= pre_progress["Senders"]

(***************************************************************************)
(* Batches and blocks.                                                     *)
(***************************************************************************)
\* the block numbers of the packages of a batch
BlocksOf(batch) == {batch[i].block_num : i \in 1 .. Len(batch)}

\* the positions of the packages of block b in a batch
PositionsOf(batch, b) == {i \in 1 .. Len(batch) : batch[i].block_num = b}

\* the packages of block b in the batch are those of all the transactions of a body
\* row of b, in transaction order and next to each other
HoldsWholeBlock(batch, b) ==
    \E k \in DOMAIN bodies :
        /\ KeyNum(k) = b
        /\ Cardinality(PositionsOf(batch, b)) = Len(bodies[k])
        /\ \A n \in 1 .. Len(bodies[k]) :
              LET i == MinNum(PositionsOf(batch, b)) + n - 1
              IN  /\ i \in PositionsOf(batch, b)
                  /\ batch[i].tx_hash = keccak256(bodies[k][n].payload)

WholeBlocks(batch) ==
    /\ \A i, j \in 1 .. Len(batch) : i < j => batch[i].block_num <= batch[j].block_num
    /\ \A b \in BlocksOf(batch) : HoldsWholeBlock(batch, b)

\* an iteration of collect_workers_results() that ends without an exception of the
\* collector
HarvestStep == CollectWorker

\* the positions of the records appended to the collector by the step
NewRecords == (Len(collector_) + 1) .. Len(collector_')

\* the worker that the step serves, and the blocks that its buffer holds
QueuedWorkers == {harvestable_worker[i] : i \in 1 .. Len(harvestable_worker)}

QueuedBlocks == UNION {BlocksOf(wbatch[w]) : w \in QueuedWorkers}

\* C31: blocks are never split across batches.  The batch handed to a worker by
\* dispatch_batch holds whole blocks in ascending block order; and a harvest appends
\* to the collector exactly one record for every block of the harvested buffers,
\* holding one address for every package of that block, and no other record.
C31_BlocksNeverSplit ==
    [][/\ DispatchToWorker => WholeBlocks(batch_)
       /\ HarvestStep =>
             /\ \A n \in NewRecords : KeyNum(collector_'[n].key) \in QueuedBlocks
             /\ \A b \in QueuedBlocks :
                   /\ Cardinality({n \in NewRecords : KeyNum(collector_'[n].key) = b}) = 1
                   /\ \A n \in NewRecords :
                         KeyNum(collector_'[n].key) = b =>
                             Len(collector_'[n].value)
                                 = Cardinality(UNION {{<<w, i>> : i \in PositionsOf(wbatch[w], b)} :
                                                         w \in QueuedWorkers})]_vars

\* C31 witness: a batch of two blocks of one transaction was handed to a worker after
\* the overflow test, and the harvest gave one record for each of the two blocks.
C31_Witness ==
    /\ pc = "load"
    /\ \E i, j \in 1 .. Len(collector_) :
          /\ collector_[i].harvest = collector_[j].harvest
          /\ KeyNum(collector_[i].key) < KeyNum(collector_[j].key)
          /\ Len(collector_[i].value) = 1
          /\ Len(collector_[j].value) = 1

\* the main thread is in wait_workers_completion()
InWaitWorkersCompletion == pc = "wait"

\* C32: wait_workers_completion terminates.  With the threads scheduled fairly and no
\* environment event before the call, a main thread that entered
\* wait_workers_completion eventually leaves it, whatever the interleaving of the
\* completion handlers with workers_in_flight_++ of dispatch_batch.
C32_WaitTerminates ==
    (InWaitWorkersCompletion /\ events = MaxEvents) ~> ~InWaitWorkersCompletion

\* the main thread is in dispatch_batch()
InDispatchBatch == pc \in {"d_collect", "d_harvest", "d_find", "d_inc"}

\* a worker of the pool whose thread was never started
Unstarted == {i \in 1 .. Len(workers_) : wstate[workers_[i]] = "unstarted"}

\* C33: dispatch_batch terminates.  With the threads scheduled fairly, every call of
\* dispatch_batch eventually returns, also after initialize_new_worker failed.
C33_DispatchTerminates ==
    InDispatchBatch ~> ~InDispatchBatch

\* a step of one recover() run
RunStep == IsRecover /\ call' = call

\* the step writes the senders table or stage_progress[senders], in the transaction or
\* in the committed store
WritesSenders ==
    \/ txn_senders' # txn_senders
    \/ db_senders' # db_senders
    \/ txn_progress'["Senders"] # txn_progress["Senders"]
    \/ db_progress'["Senders"] # db_progress["Senders"]

\* C34: phases advance in order and writes come last.  Within one recover() run
\* current_phase_ changes only from 0 to 1, from 1 to 2 and from 2 to 3; it becomes 3
\* only in the step where wait_workers_completion returns; and no step taken while
\* current_phase_ is 1 or 2 writes the senders table or stage_progress[senders].
C34_PhasesInOrderWritesLast ==
    [][RunStep =>
          /\ current_phase_' # current_phase_ =>
                (current_phase_' = current_phase_ + 1 /\ current_phase_' \in 1 .. 3)
          /\ (current_phase_' = 3 /\ current_phase_ # 3) =>
                (InWaitWorkersCompletion /\ workers_in_flight_ = 0)
          /\ current_phase_ \in {1, 2} => ~WritesSenders]_vars

\* every package that the farm or a worker holds
HeldPackages ==
    {batch_[i] : i \in 1 .. Len(batch_)}
        \cup UNION {{wbatch[w][i] : i \in 1 .. Len(wbatch[w])} : w \in WorkerIds}

\* headers_.at(block_num - header_index_offset_) is in bounds
HeaderInBounds(block_num) ==
    /\ block_num - header_index_offset_ >= 0
    /\ block_num - header_index_offset_ < Len(headers_)

\* C35: the header index stays aligned.  At every iteration of the phase-2 walk the
\* header iterator is on entry expected_block_number - from of headers_; and until
\* headers_ is cleared every package of a batch has from <= block_num <= to, its lookup
\* headers_[block_num - header_index_offset_] is in bounds and gives the canonical hash
\* of its block, which is the hash of the key of every record collected for it.
C35_HeaderIndexAligned ==
    /\ (IsRecover /\ pc \in {"walk", "t_enter", "t_ret"}) =>
          /\ header_index_offset_ = RangeFrom
          /\ headers_it_1_ \in 1 .. Len(headers_)
          /\ headers_it_1_ - 1 = expected_block_number - header_index_offset_
    /\ (IsRecover /\ current_phase_ \in {2, 3} /\ pc # "done") =>
          /\ \A package \in HeldPackages :
                /\ RangeFrom <= package.block_num /\ package.block_num <= RangeTo
                /\ HeaderInBounds(package.block_num)
                /\ headers_[package.block_num - header_index_offset_ + 1].block_hash
                       = canonical[package.block_num]
          /\ \A i \in 1 .. Len(collector_) :
                /\ HeaderInBounds(KeyNum(collector_[i].key))
                /\ KeyHash(collector_[i].key)
                       = headers_[KeyNum(collector_[i].key) - header_index_offset_ + 1].block_hash

\* C35 witness: the last block of the range is being transformed and a harvest has
\* looked up the header of a block after the first one.
C35_Witness ==
    /\ IsRecover /\ pc = "t_ret"
    /\ headers_it_1_ = Len(headers_)
    /\ \E i \in 1 .. Len(collector_) : KeyNum(collector_[i].key) > header_index_offset_
    /\ batch_ = <<>>


====
